---- MODULE Spec2Model ----
(***************************************************************************)
(* PolyFunc: the language-profile scorer (languages/profile.js), the       *)
(* configuration store (core/config.js) and the CLI commands that call     *)
(* them (cli/index.js, llm/client.js).                                     *)
(*                                                                         *)
(* JavaScript values are represented as follows.                           *)
(*   object            a function whose DOMAIN is the set of its own keys  *)
(*   missing property  a key outside DOMAIN (reads as undefined)           *)
(*   number            [nan |-> BOOLEAN, num |-> Int, den |-> Nat \ {0}],  *)
(*                     an exact fraction in lowest terms, or NaN           *)
(*   null              NullLanguage for a string, Null for an object      *)
(***************************************************************************)
EXTENDS Integers, Sequences, FiniteSets, TLC

VARIABLES
    registry,      \* module.exports.profiles, as the sequence Object.entries yields
    requirements,  \* the argument of matches / findBest; in the analyze command, the oracle's reply
    matchProfile,  \* the receiver of the last matches call
    matchResult,   \* the value the last matches call returned
    best,          \* the value the last findBest call returned
    lastOp,        \* the operation that produced the current state
    target,        \* first argument of the last deepMerge call
    source,        \* second argument of the last deepMerge call
    output,        \* the value the last deepMerge call returned
    mergeOp,       \* "init" before, "deepMerge" after the call
    config,        \* this.config of the store
    files,         \* the text of the file at each path, or NoFile
    argKey,        \* the dotted path get and set are called with
    argValue,      \* the value set is called with
    configOp,      \* the last call on the store
    calledPath,    \* the path of the last loadFromFile or saveToFile call
    outcome,       \* what the last call on the store returned or threw
    configBefore,  \* this.config before the last call on the store
    filesBefore,   \* the files before the last call on the store
    calls,         \* the number of set, loadFromFile and saveToFile calls so far
    heap,          \* the objects and arrays in memory, by address
    heapBefore,    \* the heap before the last deepMerge call on references
    ctorArg,       \* the characteristics argument of the constructor call, NoValue when omitted
    constructed,   \* the profile the constructor call built
    profileOp,     \* the last call on the constructed profile
    builderCalls,  \* the number of addUseCase and addLibrary calls on the constructed profile
    clientProvider,\* this.provider of the LLM client
    clientModel,   \* this.model of the LLM client
    clientApiKey,  \* this.apiKey of the LLM client
    client,        \* this.client of the LLM client
    constructions, \* the arguments of the new OpenAI(...) calls so far
    completion,    \* what chat.completions.create does when called: the drawn behaviour of the API
    requests,      \* the arguments of the chat.completions.create calls so far
    clientOp,      \* the last call on the LLM client
    clientOutcome, \* what the last call on the LLM client returned, threw or resolved to
    clientBefore,  \* this.client before the last call on the LLM client
    clientCalls,   \* the number of calls on the LLM client so far
    optionLanguage,\* options.language of the create command
    analysisReply, \* what the reply to analyzeRequirements parses to
    codeReply,     \* what the reply to generateCode parses to
    createPc,      \* the await the create handler is suspended at
    createLanguage,\* the local `language` of the create handler
    fileIndex,     \* files of code.files already written
    callLog,       \* the calls of the create handler, in order
    createOutcome, \* how the create handler ended
    inFlight,      \* the async methods of the LLM client whose request awaits its reply, in call order
    clientHistory, \* the methods called on the LLM client so far, in order
    analyzePc      \* where the analyze handler is: "idle", "await" or "done"

scorerVars == <<registry, requirements, matchProfile, matchResult, best, lastOp,
                target, source, output, mergeOp>>

configVars == <<config, files, argKey, argValue, configOp, calledPath, outcome,
                configBefore, filesBefore, calls>>

heapVars == <<heap, heapBefore>>

profileVars == <<ctorArg, constructed, profileOp, builderCalls>>

clientVars == <<clientProvider, clientModel, clientApiKey, client, constructions, completion, requests, clientOp, clientOutcome, clientBefore, clientCalls>>

createVars == <<optionLanguage, analysisReply, codeReply, createPc, createLanguage, fileIndex, callLog, createOutcome>>

awaitVars == <<inFlight, clientHistory, analyzePc>>

vars == <<registry, requirements, matchProfile, matchResult, best, lastOp,
          target, source, output, mergeOp, configVars, heapVars, profileVars,
          clientVars, createVars, awaitVars>>

----------------------------------------------------------------------------
(* Bounds of the model. *)

MaxProfiles == 2      \* profiles registered one by one (the builtin catalog has its own action)
MaxWeight == 2        \* weights are drawn from 0..MaxWeight
MaxQueryKeys == 1     \* characteristic keys present in an enumerated query (NamedQueries have more)
MaxCalls == 3         \* set, loadFromFile and saveToFile calls on one store
MaxBuilderCalls == 1  \* addUseCase and addLibrary calls on one constructed profile
MaxClientCalls == 3   \* calls on the LLM client
MaxNumber == 3        \* numeric leaves of a drawn configuration document are 1..MaxNumber
MaxFiles == 2         \* entries of code.files in a reply of generateCode

----------------------------------------------------------------------------
(* JavaScript numbers. *)

RECURSIVE Gcd(_, _)
Gcd(a, b) == IF b = 0 THEN a ELSE Gcd(b, a % b)

Abs(n) == IF n < 0 THEN -n ELSE n

NaN == [nan |-> TRUE, num |-> 0, den |-> 1]

Frac(n, d) ==
    LET g == Gcd(Abs(n), d)
    IN  [nan |-> FALSE, num |-> n \div g, den |-> d \div g]

Num(n) == [nan |-> FALSE, num |-> n, den |-> 1]

Add(a, b) ==
    IF a.nan \/ b.nan THEN NaN
    ELSE Frac(a.num * b.den + b.num * a.den, a.den * b.den)

Mul(a, b) ==
    IF a.nan \/ b.nan THEN NaN
    ELSE Frac(a.num * b.num, a.den * b.den)

\* a / b for b > 0 (the only division the scorer performs)
Div(a, b) ==
    IF a.nan \/ b.nan THEN NaN
    ELSE Frac(a.num * b.den, a.den * b.num)

\* a > b; every comparison with NaN is false
Gt(a, b) == ~a.nan /\ ~b.nan /\ a.num * b.den > b.num * a.den

\* obj[key] read as a number: a missing property is undefined, and undefined is NaN in arithmetic
NumProp(obj, key) == IF key \in DOMAIN obj THEN Num(obj[key]) ELSE NaN

----------------------------------------------------------------------------
(* languages/profile.js: LanguageProfile *)

NullLanguage == "null"          \* null where a string is expected
Null == [null |-> TRUE]         \* null where an object is expected
NoValue == [none |-> TRUE]      \* a variable no call has assigned yet

DefaultCharacteristics ==
    [performance |-> 5, memory |-> 5, startupTime |-> 5, ecosystem |-> 5, concurrency |-> 5]

\* variant: the defaults are spread after the supplied keys
LanguageProfileDefaultsLast(name, characteristics) ==
    [name |-> name,
     characteristics |-> DefaultCharacteristics @@ characteristics,
     useCases |-> <<>>,
     libraries |-> <<>>]

\* constructor(name, characteristics = {}): the spread lets supplied keys win
LanguageProfile(name, characteristics) ==
    [name |-> name,
     characteristics |-> characteristics @@ DefaultCharacteristics,
     useCases |-> <<>>,
     libraries |-> <<>>]

\* new LanguageProfile(name) and new LanguageProfile(name, characteristics):
\* the default of the parameter stands for an omitted argument
newLanguageProfile(name, arg) ==
    LanguageProfile(name, IF arg = NoValue THEN <<>> ELSE arg)

addUseCase(profile, useCase, score) ==
    [profile EXCEPT !.useCases = Append(@, [name |-> useCase, score |-> score])]

addLibrary(profile, name, purpose, maturity) ==
    [profile EXCEPT !.libraries =
        (name :> [purpose |-> purpose, maturity |-> maturity]) @@ @]

\* this.useCases.find(uc => uc.name === name): index of the first match, 0 when there is none
RECURSIVE FindUseCase(_, _, _)
FindUseCase(useCases, name, i) ==
    IF i > Len(useCases) THEN 0
    ELSE IF useCases[i].name = name THEN i
    ELSE FindUseCase(useCases, name, i + 1)

\* variant: every weighed characteristic counts once in the divisor
AddCharacteristicCountsOnce(acc, profile, reqs, d) ==
    IF d \in DOMAIN reqs
    THEN [score |-> Add(acc.score, Mul(Num(profile.characteristics[d]), NumProp(reqs[d], "weight"))),
          totalWeight |-> Add(acc.totalWeight, Num(1))]
    ELSE acc

\* one `if (requirements.<d>) { score += ...; totalWeight += ... }` block
AddCharacteristic(acc, profile, reqs, d) ==
    IF d \in DOMAIN reqs
    THEN [score |-> Add(acc.score, Mul(Num(profile.characteristics[d]), NumProp(reqs[d], "weight"))),
          totalWeight |-> Add(acc.totalWeight, NumProp(reqs[d], "weight"))]
    ELSE acc

\* requirements.useCaseWeight || 1: undefined and 0 are both falsy
UseCaseWeightOrOne(reqs) ==
    IF "useCaseWeight" \in DOMAIN reqs /\ reqs.useCaseWeight # 0
    THEN Num(reqs.useCaseWeight)
    ELSE Num(1)

\* variant: an unmatched use case still adds its weight (with score 0)
AddUseCaseMatchCountsMissing(acc, profile, reqs) ==
    IF "useCase" \in DOMAIN reqs /\ reqs.useCase # ""
    THEN LET i == FindUseCase(profile.useCases, reqs.useCase, 1)
         IN  [score |-> Add(acc.score,
                            Mul(Num(IF i # 0 THEN profile.useCases[i].score ELSE 0),
                                UseCaseWeightOrOne(reqs))),
              totalWeight |-> Add(acc.totalWeight, UseCaseWeightOrOne(reqs))]
    ELSE acc

\* the `if (requirements.useCase) { ... }` block; the empty string is falsy
AddUseCaseMatch(acc, profile, reqs) ==
    IF "useCase" \in DOMAIN reqs /\ reqs.useCase # ""
    THEN LET i == FindUseCase(profile.useCases, reqs.useCase, 1)
         IN  IF i # 0
             THEN [score |-> Add(acc.score,
                                 Mul(Num(profile.useCases[i].score), UseCaseWeightOrOne(reqs))),
                   totalWeight |-> Add(acc.totalWeight, UseCaseWeightOrOne(reqs))]
             ELSE acc
    ELSE acc

\* the accumulators of matches just before its return statement
Accumulate(profile, reqs) ==
    LET a0 == [score |-> Num(0), totalWeight |-> Num(0)]
        a1 == AddCharacteristic(a0, profile, reqs, "performance")
        a2 == AddCharacteristic(a1, profile, reqs, "memory")
        a3 == AddCharacteristic(a2, profile, reqs, "startupTime")
        a4 == AddCharacteristic(a3, profile, reqs, "ecosystem")
        a5 == AddCharacteristic(a4, profile, reqs, "concurrency")
    IN  AddUseCaseMatch(a5, profile, reqs)

\* variant: "no match" reported as -1 instead of 0
matchesMinusOne(profile, reqs) ==
    LET a == Accumulate(profile, reqs)
    IN  IF Gt(a.totalWeight, Num(0)) THEN Div(a.score, a.totalWeight) ELSE Num(-1)

matches(profile, reqs) ==
    LET a == Accumulate(profile, reqs)
    IN  IF Gt(a.totalWeight, Num(0)) THEN Div(a.score, a.totalWeight) ELSE Num(0)

toJSON(profile) ==
    [name |-> profile.name,
     characteristics |-> profile.characteristics,
     useCases |-> profile.useCases,
     libraries |-> profile.libraries]

----------------------------------------------------------------------------
(* languages/profile.js: the builtin catalog *)

javascriptProfile ==
    LET p0 == LanguageProfile("javascript",
                  [performance |-> 6, memory |-> 5, startupTime |-> 7,
                   ecosystem |-> 9, concurrency |-> 6])
        p1 == addUseCase(p0, "web", 9)
        p2 == addUseCase(p1, "api", 8)
        p3 == addUseCase(p2, "scripting", 9)
        p4 == addUseCase(p3, "data", 6)
        p5 == addLibrary(p4, "express", "web server", 9)
    IN  addLibrary(p5, "node-fetch", "http client", 8)

pythonProfile ==
    LET p0 == LanguageProfile("python",
                  [performance |-> 5, memory |-> 6, startupTime |-> 6,
                   ecosystem |-> 9, concurrency |-> 5])
        p1 == addUseCase(p0, "data", 9)
        p2 == addUseCase(p1, "ml", 10)
        p3 == addUseCase(p2, "scripting", 9)
        p4 == addUseCase(p3, "web", 6)
        p5 == addLibrary(p4, "flask", "web server", 8)
    IN  addLibrary(p5, "pandas", "data processing", 9)

goProfile ==
    LET p0 == LanguageProfile("go",
                  [performance |-> 8, memory |-> 8, startupTime |-> 9,
                   ecosystem |-> 7, concurrency |-> 10])
        p1 == addUseCase(p0, "performance", 9)
        p2 == addUseCase(p1, "concurrency", 10)
        p3 == addUseCase(p2, "api", 8)
        p4 == addUseCase(p3, "system", 8)
        p5 == addLibrary(p4, "gin", "web framework", 8)
    IN  addLibrary(p5, "gorm", "orm", 7)

rustProfile ==
    LET p0 == LanguageProfile("rust",
                  [performance |-> 10, memory |-> 9, startupTime |-> 7,
                   ecosystem |-> 6, concurrency |-> 9])
        p1 == addUseCase(p0, "system", 10)
        p2 == addUseCase(p1, "performance", 10)
        p3 == addUseCase(p2, "concurrency", 9)
        p4 == addUseCase(p3, "embedded", 9)
        p5 == addLibrary(p4, "actix-web", "web server", 8)
    IN  addLibrary(p5, "serde", "serialization", 9)

\* Object.entries(profiles): insertion order of the object literal
profiles == <<javascriptProfile, pythonProfile, goProfile, rustProfile>>

----------------------------------------------------------------------------
(* languages/profile.js: findBestLanguageForRequirements *)

\* this.profiles[name] for a name the loop has seen
Lookup(reg, name) == reg[CHOOSE i \in 1..Len(reg) : reg[i].name = name]

\* the (bestScore, bestLanguage) pair after the loop has visited reg[i..]
\* a >= b
Ge(a, b) == ~a.nan /\ ~b.nan /\ a.num * b.den >= b.num * a.den

\* variant: `score >= bestScore`, so the last of the tied profiles wins
RECURSIVE BestFromTiesLast(_, _, _, _)
BestFromTiesLast(reg, reqs, i, acc) ==
    IF i > Len(reg) THEN acc
    ELSE LET score == matches(reg[i], reqs)
         IN  BestFromTiesLast(reg, reqs, i + 1,
                 IF Ge(score, acc.bestScore)
                 THEN [bestScore |-> score, bestLanguage |-> reg[i].name]
                 ELSE acc)

\* variant: `score < bestScore`
RECURSIVE BestFromLess(_, _, _, _)
BestFromLess(reg, reqs, i, acc) ==
    IF i > Len(reg) THEN acc
    ELSE LET score == matches(reg[i], reqs)
         IN  BestFromLess(reg, reqs, i + 1,
                 IF Gt(acc.bestScore, score)
                 THEN [bestScore |-> score, bestLanguage |-> reg[i].name]
                 ELSE acc)

RECURSIVE BestFrom(_, _, _, _)
BestFrom(reg, reqs, i, acc) ==
    IF i > Len(reg) THEN acc
    ELSE LET score == matches(reg[i], reqs)
         IN  BestFrom(reg, reqs, i + 1,
                 IF Gt(score, acc.bestScore)
                 THEN [bestScore |-> score, bestLanguage |-> reg[i].name]
                 ELSE acc)

\* variant: the running maximum starts at 0
findBestFromZero(reg, reqs) ==
    LET r == BestFrom(reg, reqs, 1, [bestScore |-> Num(0), bestLanguage |-> NullLanguage])
    IN  [language |-> r.bestLanguage,
         score |-> r.bestScore,
         profile |-> IF r.bestLanguage # NullLanguage /\ r.bestLanguage # ""
                     THEN Lookup(reg, r.bestLanguage)
                     ELSE Null]

findBestLanguageForRequirements(reg, reqs) ==
    LET r == BestFrom(reg, reqs, 1, [bestScore |-> Num(-1), bestLanguage |-> NullLanguage])
    IN  [language |-> r.bestLanguage,
         score |-> r.bestScore,
         profile |-> IF r.bestLanguage # NullLanguage /\ r.bestLanguage # ""
                     THEN Lookup(reg, r.bestLanguage)
                     ELSE Null]

----------------------------------------------------------------------------
(* core/config.js: deepMerge.  A configuration value carries its type:     *)
(* [object |-> f] (f maps the own keys to values), [array |-> seq],         *)
(* [string |-> s], [number |-> n], [boolean |-> b], Null, Undefined.  An    *)
(* array that was given named properties is [array |-> seq, props |-> f].  *)

Obj(f) == [object |-> f]
Arr(a) == [array |-> a]
Str(s) == [string |-> s]
Number(n) == [number |-> n]
Bool(b) == [boolean |-> b]
Undefined == [undefined |-> TRUE]

\* a position of an array that holds no element: it reads as undefined
Hole == [hole |-> TRUE]

\* item && typeof item === 'object' && !Array.isArray(item)
isObject(item) == "object" \in DOMAIN item

\* the property names of the positions of an array or a string
IndexKeys == <<"0", "1", "2", "3", "4", "5", "6", "7", "8", "9", "10", "11">>

\* the property name of the element at position j (1-based here, 0-based in JavaScript)
IndexKey(j) == IndexKeys[j]

KeyIndex(k) == CHOOSE j \in 1..Len(IndexKeys) : IndexKeys[j] = k

\* the characters of the strings the model stores
Chars(s) ==
    CASE s = "hi" -> <<"h", "i">>
      [] s = "openai" -> <<"o", "p", "e", "n", "a", "i">>
      [] s = "gpt-4" -> <<"g", "p", "t", "-", "4">>
      [] s = "custom-model" -> <<"c", "u", "s", "t", "o", "m", "-", "m", "o", "d", "e", "l">>
      [] s = "./services" -> <<".", "/", "s", "e", "r", "v", "i", "c", "e", "s">>
      [] s = "./templates" -> <<".", "/", "t", "e", "m", "p", "l", "a", "t", "e", "s">>
      [] s = "test" -> <<"t", "e", "s", "t">>
      [] s = "web" -> <<"w", "e", "b">>
      [] s = "api" -> <<"a", "p", "i">>
      [] s = "cli" -> <<"c", "l", "i">>
      [] s = "data" -> <<"d", "a", "t", "a">>
      [] s = "ml" -> <<"m", "l">>
      [] s = "performance" -> <<"p", "e", "r", "f", "o", "r", "m", "a", "n", "c", "e">>
      [] s = "concurrency" -> <<"c", "o", "n", "c", "u", "r", "r", "e", "n", "c", "y">>
      [] s = "system" -> <<"s", "y", "s", "t", "e", "m">>
      [] s = "" -> <<>>

\* the own enumerable properties `{ ...item }` copies: those of an object, the
\* elements of an array (its holes are no properties), the characters of a
\* string, none of any other value
Spread(item) ==
    IF "object" \in DOMAIN item THEN item.object
    ELSE IF "array" \in DOMAIN item
    THEN [k \in {IndexKey(j) : j \in {i \in 1..Len(item.array) : item.array[i] # Hole}} |->
             item.array[KeyIndex(k)]]
         @@ (IF "props" \in DOMAIN item THEN item.props ELSE <<>>)
    ELSE IF "string" \in DOMAIN item
    THEN [k \in {IndexKey(j) : j \in 1..Len(Chars(item.string))} |->
             Str(Chars(item.string)[KeyIndex(k)])]
    ELSE <<>>

\* variant: the one-level merge `{ ...target, ...source }`
deepMergeShallow(t, s) ==
    IF isObject(t) /\ isObject(s) THEN Obj(s.object @@ Spread(t)) ELSE Obj(Spread(t))

RECURSIVE deepMerge(_, _)
deepMerge(t, s) ==
    LET copy == Spread(t)
    IN  IF isObject(t) /\ isObject(s)
        THEN Obj([key \in DOMAIN copy \cup DOMAIN s.object |->
                    IF key \in DOMAIN s.object
                    THEN IF isObject(s.object[key])
                         THEN IF key \notin DOMAIN t.object
                              THEN s.object[key]
                              ELSE deepMerge(t.object[key], s.object[key])
                         ELSE s.object[key]
                    ELSE copy[key]])
        ELSE Obj(copy)

----------------------------------------------------------------------------
(* core/config.js: deepMerge on references.  The heap is the sequence of   *)
(* the objects and arrays in memory; a property of an object holds a       *)
(* string, a number or the reference [ref |-> address] of an object or an  *)
(* array of the heap.                                                      *)

Ref(a) == [ref |-> a]

\* item is a reference to a plain object of h
isObjectAt(h, item) == "ref" \in DOMAIN item /\ "object" \in DOMAIN h[item.ref]

\* the heap with doc built in it: [heap, val], val being doc itself or the
\* reference of its object
RECURSIVE Alloc(_, _), AllocMembers(_, _, _, _)
Alloc(h, doc) ==
    IF "object" \in DOMAIN doc
    THEN LET built == AllocMembers(h, doc.object, DOMAIN doc.object, <<>>)
         IN  [heap |-> Append(built.heap, Obj(built.props)),
              val |-> Ref(Len(built.heap) + 1)]
    ELSE IF "array" \in DOMAIN doc
    THEN [heap |-> Append(h, doc), val |-> Ref(Len(h) + 1)]
    ELSE [heap |-> h, val |-> doc]

AllocMembers(h, f, S, props) ==
    IF S = {} THEN [heap |-> h, props |-> props]
    ELSE LET k == CHOOSE x \in S : TRUE
             built == Alloc(h, f[k])
         IN  AllocMembers(built.heap, f, S \ {k}, (k :> built.val) @@ props)

\* the document a value of the heap stands for
RECURSIVE Deref(_, _)
Deref(h, item) ==
    IF "ref" \notin DOMAIN item THEN item
    ELSE IF "object" \in DOMAIN h[item.ref]
    THEN Obj([k \in DOMAIN h[item.ref].object |-> Deref(h, h[item.ref].object[k])])
    ELSE h[item.ref]

\* the own enumerable properties of a value of the heap
SpreadAt(h, item) == IF "ref" \in DOMAIN item THEN Spread(h[item.ref]) ELSE Spread(item)

\* output[key] = val
WriteAt(h, out, key, val) ==
    [h EXCEPT ![out.ref] = Obj((key :> val) @@ @.object)]

\* variant: `const output = target`, no copy
CopyTargetAliased(h, t) ==
    IF isObjectAt(h, t) THEN [heap |-> h, val |-> t]
    ELSE [heap |-> Append(h, Obj(SpreadAt(h, t))), val |-> Ref(Len(h) + 1)]

\* const output = { ...target }: [heap, val], val referring to the new object
CopyTarget(h, t) ==
    [heap |-> Append(h, Obj(SpreadAt(h, t))), val |-> Ref(Len(h) + 1)]

\* deepMerge(target, source) on the heap h: [heap, val], val referring to output;
\* deepMergeKeys is the forEach over the keys S of source still to come
RECURSIVE deepMergeAt(_, _, _), deepMergeKeys(_, _, _, _, _)
deepMergeAt(h, t, s) ==
    LET copied == CopyTarget(h, t)
    IN  IF isObjectAt(h, t) /\ isObjectAt(h, s)
        THEN [heap |-> deepMergeKeys(copied.heap, copied.val, t, s,
                                     DOMAIN h[s.ref].object),
              val |-> copied.val]
        ELSE copied

deepMergeKeys(h, out, t, s, S) ==
    IF S = {} THEN h
    ELSE LET key == CHOOSE x \in S : TRUE
             from == h[s.ref].object[key]
         IN  IF isObjectAt(h, from) /\ key \in DOMAIN h[t.ref].object
             THEN LET merged == deepMergeAt(h, h[t.ref].object[key], from)
                  IN  deepMergeKeys(WriteAt(merged.heap, out, key, merged.val),
                                    out, t, s, S \ {key})
             ELSE deepMergeKeys(WriteAt(h, out, key, from), out, t, s, S \ {key})

----------------------------------------------------------------------------
(* core/config.js: the store.  A dotted path is the sequence of its        *)
(* segments and of the "." between them; a file's text is the sequence of  *)
(* its lexemes.  Inherited properties (length, constructor, ...) are not   *)
(* among the keys the model draws.                                         *)

\* the outcome of a call: a returned value or a thrown TypeError
Return(v) == [returned |-> v]
Throw == [thrown |-> "TypeError"]

\* !item
Falsy(item) == item \in {Undefined, Null, Bool(FALSE), Number(0), Str("")}

\* typeof item is 'string', 'number' or 'boolean'
Primitive(item) ==
    \/ "string" \in DOMAIN item
    \/ "number" \in DOMAIN item
    \/ "boolean" \in DOMAIN item

\* the segments of a dotted path from its first lexeme on, the segment begun
\* so far being segment
RECURSIVE SplitFrom(_, _)
SplitFrom(key, segment) ==
    IF key = <<>> THEN <<segment>>
    ELSE IF Head(key) = "." THEN <<segment>> \o SplitFrom(Tail(key), "")
    ELSE SplitFrom(Tail(key), Head(key))

\* key.split('.')
Split(key) == SplitFrom(key, "")

\* item[k], for an item that is neither null nor undefined
PropRead(item, k) ==
    IF k \in DOMAIN Spread(item) THEN Spread(item)[k] ELSE Undefined

\* the loop of get, from the value reached so far
RECURSIVE getFrom(_, _)
getFrom(result, keys) ==
    IF keys = <<>> THEN Return(result)
    ELSE IF result \in {Null, Undefined} THEN Throw
    ELSE IF PropRead(result, Head(keys)) = Undefined THEN Return(Undefined)
    ELSE getFrom(PropRead(result, Head(keys)), Tail(keys))

\* get(key), on the document conf
get(conf, key) == getFrom(conf, Split(key))

\* current[k] = value in strict mode: [thrown, obj], obj being current afterwards.
\* On an array an index inside it replaces the element, an index at or past
\* its length lengthens it (the positions skipped are holes), and any other
\* key becomes a named property
AssignProp(current, k, value) ==
    IF "object" \in DOMAIN current
    THEN [thrown |-> FALSE, obj |-> Obj((k :> value) @@ current.object)]
    ELSE IF "array" \in DOMAIN current
    THEN IF k \in {IndexKey(j) : j \in 1..Len(current.array)}
         THEN [thrown |-> FALSE,
               obj |-> [current EXCEPT !.array[KeyIndex(k)] = value]]
         ELSE IF k \in {IndexKey(j) : j \in 1..Len(IndexKeys)}
         THEN [thrown |-> FALSE,
               obj |-> [current EXCEPT !.array =
                           @ \o [i \in 1..(KeyIndex(k) - Len(@) - 1) |-> Hole]
                             \o <<value>>]]
         ELSE [thrown |-> FALSE,
               obj |-> [array |-> current.array,
                        props |-> (k :> value) @@
                                  (IF "props" \in DOMAIN current THEN current.props
                                                                  ELSE <<>>)]]
    ELSE [thrown |-> TRUE, obj |-> current]

\* the loop of set and its last assignment, from the value reached so far:
\* [thrown, obj], obj being current after the call
RECURSIVE setIn(_, _, _)
setIn(current, keys, value) ==
    IF Len(keys) = 1 THEN AssignProp(current, keys[1], value)
    ELSE LET k == Head(keys)
             made == IF Falsy(PropRead(current, k))
                     THEN AssignProp(current, k, Obj(<<>>))
                     ELSE [thrown |-> FALSE, obj |-> current]
         IN  IF made.thrown THEN made
             ELSE LET below == setIn(PropRead(made.obj, k), Tail(keys), value)
                  IN  [thrown |-> below.thrown,
                       obj |-> IF Primitive(below.obj) THEN made.obj
                               ELSE AssignProp(made.obj, k, below.obj).obj]

\* set(key, value), on the document conf
set(conf, key, value) == setIn(conf, Split(key), value)

\* a punctuation lexeme
P(c) == [punct |-> c]

\* the keys JSON.stringify writes: those whose value is not undefined
Written(f) == {k \in DOMAIN f : f[k] # Undefined}

\* JSON.stringify(value): the lexemes of the text.  Members come in one fixed
\* order; named properties of an array are not written; an undefined element
\* and a hole are written as null
RECURSIVE Serialize(_), SerializeMembers(_, _), SerializeElements(_)
Serialize(v) ==
    IF "object" \in DOMAIN v
    THEN <<P("{")>> \o SerializeMembers(v.object, Written(v.object)) \o <<P("}")>>
    ELSE IF "array" \in DOMAIN v
    THEN <<P("[")>> \o SerializeElements(v.array) \o <<P("]")>>
    ELSE IF v \in {Undefined, Hole} THEN <<Null>>
    ELSE <<v>>

SerializeMembers(f, S) ==
    IF S = {} THEN <<>>
    ELSE LET k == CHOOSE x \in S : TRUE
         IN  <<Str(k), P(":")>> \o Serialize(f[k])
             \o (IF S = {k} THEN <<>> ELSE <<P(",")>>)
             \o SerializeMembers(f, S \ {k})

SerializeElements(a) ==
    IF a = <<>> THEN <<>>
    ELSE Serialize(Head(a))
         \o (IF Len(a) = 1 THEN <<>> ELSE <<P(",")>>)
         \o SerializeElements(Tail(a))

JSONstringify(v) == Serialize(v)

\* a lexeme that is a value by itself
Literal(t) ==
    \/ "string" \in DOMAIN t
    \/ "number" \in DOMAIN t
    \/ "boolean" \in DOMAIN t
    \/ t = Null

Fail == [ok |-> FALSE]

\* the parser of JSON.parse: [ok, value, rest], rest being the lexemes left
RECURSIVE ParseValue(_), ParseMembers(_, _), ParseElements(_, _)
ParseValue(text) ==
    IF text = <<>> THEN Fail
    ELSE IF Head(text) = P("{")
    THEN IF Len(text) > 1 /\ text[2] = P("}")
         THEN [ok |-> TRUE, value |-> Obj(<<>>), rest |-> Tail(Tail(text))]
         ELSE ParseMembers(Tail(text), <<>>)
    ELSE IF Head(text) = P("[")
    THEN IF Len(text) > 1 /\ text[2] = P("]")
         THEN [ok |-> TRUE, value |-> Arr(<<>>), rest |-> Tail(Tail(text))]
         ELSE ParseElements(Tail(text), <<>>)
    ELSE IF Literal(Head(text))
    THEN [ok |-> TRUE, value |-> Head(text), rest |-> Tail(text)]
    ELSE Fail

\* after "{" or ",": a member, then "," and more members, or "}"
ParseMembers(text, f) ==
    IF Len(text) < 3 \/ "string" \notin DOMAIN text[1] \/ text[2] # P(":") THEN Fail
    ELSE LET member == ParseValue(Tail(Tail(text)))
         IN  IF ~member.ok \/ member.rest = <<>> THEN Fail
             ELSE LET g == (text[1].string :> member.value) @@ f
                  IN  IF Head(member.rest) = P("}")
                      THEN [ok |-> TRUE, value |-> Obj(g), rest |-> Tail(member.rest)]
                      ELSE IF Head(member.rest) = P(",")
                      THEN ParseMembers(Tail(member.rest), g)
                      ELSE Fail

\* after "[" or ",": an element, then "," and more elements, or "]"
ParseElements(text, a) ==
    LET element == ParseValue(text)
    IN  IF ~element.ok \/ element.rest = <<>> THEN Fail
        ELSE IF Head(element.rest) = P("]")
        THEN [ok |-> TRUE, value |-> Arr(Append(a, element.value)),
              rest |-> Tail(element.rest)]
        ELSE IF Head(element.rest) = P(",")
        THEN ParseElements(Tail(element.rest), Append(a, element.value))
        ELSE Fail

\* JSON.parse(text): [ok, value]; not ok stands for the SyntaxError
JSONparse(text) ==
    LET parsed == ParseValue(text)
    IN  IF parsed.ok /\ parsed.rest = <<>>
        THEN [ok |-> TRUE, value |-> parsed.value]
        ELSE Fail

\* the first lexeme of a text in YAML block layout
BlockLayout == [layout |-> "block"]

\* yaml.stringify(value)
YAMLstringify(v) == <<BlockLayout>> \o Serialize(v)

\* yaml.parse(text): block layout, or the flow layout that JSON text has
YAMLparse(text) ==
    IF text # <<>> /\ Head(text) = BlockLayout THEN JSONparse(Tail(text))
    ELSE JSONparse(text)

\* a text that is neither JSON nor YAML
Garbage == <<P("{")>>

\* what a path names: a file of some text, or no file
File(text) == [text |-> text]
NoFile == [nofile |-> TRUE]

\* the paths the store is called with
Paths == {"config.json", "config.yml", "config.YAML", "config.txt",
          "nodir/config.json"}

\* the directory of the path does not exist: writeFileSync throws
Unwritable(configPath) == configPath = "nodir/config.json"

\* path.extname(configPath).toLowerCase()
Extname(configPath) ==
    CASE configPath \in {"config.json", "nodir/config.json"} -> ".json"
      [] configPath = "config.yml" -> ".yml"
      [] configPath = "config.YAML" -> ".yaml"
      [] configPath = "config.txt" -> ".txt"

\* the try block of loadFromFile up to the merge: [ok, value]
loadedConfig(fs, configPath) ==
    IF fs[configPath] = NoFile THEN Fail
    ELSE IF Extname(configPath) = ".json" THEN JSONparse(fs[configPath].text)
    ELSE IF Extname(configPath) \in {".yml", ".yaml"} THEN YAMLparse(fs[configPath].text)
    ELSE Fail

\* variant: the document is replaced by what was read so far even when the
\* call fails
loadFromFileAssignsFirst(conf, fs, configPath) ==
    LET loaded == loadedConfig(fs, configPath)
    IN  IF loaded.ok
        THEN [ret |-> TRUE, config |-> deepMerge(conf, loaded.value)]
        ELSE [ret |-> FALSE, config |-> Obj(<<>>)]

\* loadFromFile(configPath): [ret, config]
loadFromFile(conf, fs, configPath) ==
    LET loaded == loadedConfig(fs, configPath)
    IN  IF loaded.ok
        THEN [ret |-> TRUE, config |-> deepMerge(conf, loaded.value)]
        ELSE [ret |-> FALSE, config |-> conf]

\* variant: a path of any suffix is written as JSON
saveToFileAnySuffix(conf, fs, configPath) ==
    IF Unwritable(configPath) THEN [ret |-> FALSE, files |-> fs]
    ELSE [ret |-> TRUE,
          files |-> [fs EXCEPT ![configPath] =
                        IF Extname(configPath) \in {".yml", ".yaml"}
                        THEN File(YAMLstringify(conf))
                        ELSE File(JSONstringify(conf))]]

\* saveToFile(configPath): [ret, files]
saveToFile(conf, fs, configPath) ==
    IF Extname(configPath) \notin {".json", ".yml", ".yaml"} \/ Unwritable(configPath)
    THEN [ret |-> FALSE, files |-> fs]
    ELSE [ret |-> TRUE,
          files |-> [fs EXCEPT ![configPath] =
                        IF Extname(configPath) = ".json"
                        THEN File(JSONstringify(conf))
                        ELSE File(YAMLstringify(conf))]]

\* this.config after the constructor, OPENAI_API_KEY not being set
DefaultConfig ==
    Obj([llm |-> Obj([provider |-> Str("openai"),
                      model |-> Str("gpt-4"),
                      apiKey |-> Undefined]),
         languages |->
             Obj([javascript |-> Obj([priority |-> Number(1),
                                      useCase |-> Arr(<<Str("web"), Str("api")>>)]),
                  python |-> Obj([priority |-> Number(2),
                                  useCase |-> Arr(<<Str("data"), Str("ml")>>)]),
                  go |-> Obj([priority |-> Number(3),
                              useCase |-> Arr(<<Str("performance"),
                                                Str("concurrency")>>)]),
                  rust |-> Obj([priority |-> Number(4),
                                useCase |-> Arr(<<Str("system"),
                                                  Str("performance")>>)])]),
         paths |-> Obj([services |-> Str("./services"),
                        templates |-> Str("./templates")])])

\* the copy of core/config.js that has no deepMerge: loadFromFile replaces the
\* document by { ...this.config, ...parsed }
loadFromFileSpread(conf, fs, configPath) ==
    LET loaded == loadedConfig(fs, configPath)
    IN  IF loaded.ok
        THEN [ret |-> TRUE, config |-> Obj(Spread(loaded.value) @@ Spread(conf))]
        ELSE [ret |-> FALSE, config |-> conf]

----------------------------------------------------------------------------
(* llm/client.js: LLMClient.  The client object is the record of its       *)
(* fields [provider, model, apiKey, client], with the log of the provider  *)
(* clients constructed and of the requests sent.                           *)

\* an Error thrown by getClient or initializeClient
ThrowError == [thrown |-> "Error"]

\* what an async method settles to
Resolved(v) == [resolved |-> v]
Rejected == [rejected |-> TRUE]

\* the constructor: the fields read from the store, no provider client yet
LLMClient(conf) ==
    [provider |-> get(conf, <<"llm", ".", "provider">>).returned,
     model |-> get(conf, <<"llm", ".", "model">>).returned,
     apiKey |-> get(conf, <<"llm", ".", "apiKey">>).returned,
     client |-> Null,
     constructions |-> <<>>,
     requests |-> <<>>]

\* initializeClient(): [outcome, this]; new OpenAI({apiKey}) is logged
initializeClient(this) ==
    IF this.provider = Str("openai")
    THEN [outcome |-> Return([openai |-> Len(this.constructions) + 1,
                              apiKey |-> this.apiKey]),
          this |-> [this EXCEPT !.constructions = Append(@, [apiKey |-> this.apiKey])]]
    ELSE [outcome |-> ThrowError, this |-> this]

\* variant: the client is built on every call and never kept
getClientNotCached(this) ==
    IF Falsy(this.apiKey) THEN [outcome |-> ThrowError, this |-> this]
    ELSE initializeClient(this)

\* getClient(): [outcome, this]
getClient(this) ==
    IF Falsy(this.client)
    THEN IF Falsy(this.apiKey) THEN [outcome |-> ThrowError, this |-> this]
         ELSE LET made == initializeClient(this)
              IN  IF made.outcome = ThrowError THEN made
                  ELSE [outcome |-> made.outcome,
                        this |-> [made.this EXCEPT !.client = made.outcome.returned]]
    ELSE [outcome |-> Return(this.client), this |-> this]

\* the behaviours of chat.completions.create: it rejects, or it resolves to a
\* response without choices, or to a response whose first choice has a text
ApiRejects == [rejects |-> TRUE]
ApiResponse(choices) == [choices |-> choices]

\* what an async method has settled to while its request awaits the reply
Pending == [pending |-> TRUE]

\* an async method up to `await this.getClient().chat.completions.create(...)`:
\* [outcome, this].  When getClient throws, the catch block returns null and
\* no request is sent; otherwise the request is sent and the method waits
request(this, temperature) ==
    LET got == getClient(this)
    IN  IF got.outcome = ThrowError THEN [outcome |-> Resolved(Null), this |-> got.this]
        ELSE [outcome |-> Pending,
              this |-> [got.this EXCEPT !.requests =
                           Append(@, [model |-> this.model, temperature |-> temperature])]]

\* variant: a reply that is not JSON is not caught
settleParseUncaught(behaviour) ==
    IF behaviour = ApiRejects \/ behaviour.choices = <<>> THEN Resolved(Null)
    ELSE IF JSONparse(behaviour.choices[1]).ok
    THEN Resolved(JSONparse(behaviour.choices[1]).value)
    ELSE Rejected

\* an async method from the await on: a rejection and a response without
\* choices end in the outer catch block, a text that JSON.parse refuses in
\* the inner one; otherwise the parsed text is returned
settle(behaviour) ==
    IF behaviour = ApiRejects \/ behaviour.choices = <<>> THEN Resolved(Null)
    ELSE IF JSONparse(behaviour.choices[1]).ok
    THEN Resolved(JSONparse(behaviour.choices[1]).value)
    ELSE Resolved(Null)

\* the three async methods up to their await; temperatures are written in tenths
analyzeRequirements(this) == request(this, 2)

decomposeService(this) == request(this, 3)

generateCode(this) == request(this, 2)

\* a sequence without its i-th element
Without(seq, i) == SubSeq(seq, 1, i - 1) \o SubSeq(seq, i + 1, Len(seq))

----------------------------------------------------------------------------
(* cli/index.js and llm/client.js: the analyze command *)

DimSet == {"performance", "memory", "startupTime", "ecosystem", "concurrency"}

\* the object the prompt of analyzeRequirements asks the model for, parsed by JSON.parse
OracleObject(useCase, weights, importance, useCaseWeight) ==
    [useCase |-> useCase,
     requirements |-> [d \in DOMAIN weights |->
                          [importance |-> importance, weight |-> weights[d]]],
     dependencies |-> <<>>,
     useCaseWeight |-> useCaseWeight]

\* the action of `analyze <description>` after analyzeRequirements has resolved
analyzeResult(reg, reply) ==
    IF reply = Null THEN NoValue
    ELSE findBestLanguageForRequirements(reg, reply)

----------------------------------------------------------------------------
(* cli/index.js: the languages command *)

\* x placed behind every element whose score is not smaller (the sort is stable)
RECURSIVE InsertByScore(_, _)
InsertByScore(sorted, x) ==
    IF sorted = <<>> THEN <<x>>
    ELSE IF sorted[1].score >= x.score
         THEN <<sorted[1]>> \o InsertByScore(Tail(sorted), x)
         ELSE <<x>> \o sorted

\* useCases.sort((a, b) => b.score - a.score)
RECURSIVE SortByScore(_)
SortByScore(useCases) ==
    IF useCases = <<>> THEN <<>>
    ELSE InsertByScore(SortByScore(SubSeq(useCases, 1, Len(useCases) - 1)),
                       useCases[Len(useCases)])

\* the registry after the loop of the languages command: Array.prototype.sort
\* sorts profile.useCases in place
languagesCommand(reg) ==
    [i \in 1..Len(reg) |-> [reg[i] EXCEPT !.useCases = SortByScore(@)]]

----------------------------------------------------------------------------
(* cli/index.js: the create command.  A path is the sequence of its       *)
(* segments; a call is logged with its function and its argument.  The    *)
(* handler is [pc, language, fileIndex, log, outcome]: the await it is    *)
(* suspended at, its local `language`, the number of writeFile calls of   *)
(* the loop so far, the calls it has made and the message it ended with.  *)

\* path.normalize: "." and empty segments dropped, ".." removes the segment before it
RECURSIVE normalize(_, _)
normalize(segs, acc) ==
    IF segs = <<>> THEN acc
    ELSE LET s == Head(segs)
         IN  IF s = "." \/ s = "" THEN normalize(Tail(segs), acc)
             ELSE IF s = ".." /\ acc # <<>> /\ acc[Len(acc)] # ".."
                  THEN normalize(Tail(segs), SubSeq(acc, 1, Len(acc) - 1))
                  ELSE normalize(Tail(segs), Append(acc, s))

\* path.join(a, b)
pathJoin(a, b) == normalize(a \o b, <<>>)

\* path.dirname(p)
dirname(p) == IF Len(p) <= 1 THEN <<".">> ELSE SubSeq(p, 1, Len(p) - 1)

\* language + '-service': null concatenates as 'null'
ServiceName(language) ==
    (IF language = Null THEN "null" ELSE language.string) \o "-service"

\* path.join('./services', language + '-service')
servicePath(language) == pathJoin(<<".", "services">>, <<ServiceName(language)>>)

Call(fn, arg) == [fn |-> fn, arg |-> arg]

Description == "Create an API service"

\* the handler up to `await llm.analyzeRequirements(description)`
createStart(description) ==
    [pc |-> "analyze", language |-> Undefined, fileIndex |-> 0,
     log |-> <<Call("analyzeRequirements", Str(description))>>,
     outcome |-> "none"]

\* bestLanguage.language as the handler holds it: a string, or null
LanguageOf(bestLanguage) ==
    IF bestLanguage.language = NullLanguage THEN Null ELSE Str(bestLanguage.language)

\* `await llm.generateCode(language, 'service', description)`, after findBest
\* when it was consulted
requestCode(h, consulted, language, description) ==
    [h EXCEPT !.pc = "generate", !.language = language,
              !.log = @ \o (IF consulted
                            THEN <<Call("findBestLanguageForRequirements",
                                        [returned |-> language])>>
                            ELSE <<>>)
                        \o <<Call("generateCode",
                                  [language |-> language,
                                   serviceName |-> "service",
                                   description |-> description])>>]

\* steps 1 and 2, from the analysis to `await llm.generateCode(...)`
createAnalyzed(h, reg, option, reply, description) ==
    IF reply = Null
    THEN [h EXCEPT !.pc = "done", !.outcome = "Failed to analyze requirements"]
    ELSE IF Falsy(option)
         THEN requestCode(h, TRUE,
                          LanguageOf(findBestLanguageForRequirements(reg, reply)),
                          description)
         ELSE requestCode(h, FALSE, option, description)

\* variant: the service directory is made before the reply is looked at
createGeneratedMkdirFirst(h, code) ==
    IF code = Null \/ "files" \notin DOMAIN code \/ Falsy(code.files)
    THEN [h EXCEPT !.pc = "done", !.outcome = "Failed to generate code",
                   !.log = Append(@, Call("mkdir", [path |-> servicePath(h.language)]))]
    ELSE [h EXCEPT !.pc = "loop",
                   !.log = Append(@, Call("mkdir", [path |-> servicePath(h.language)]))]

\* step 3's check and `await fs.mkdir(servicePath, { recursive: true })`
createGenerated(h, code) ==
    IF code = Null \/ "files" \notin DOMAIN code \/ Falsy(code.files)
    THEN [h EXCEPT !.pc = "done", !.outcome = "Failed to generate code"]
    ELSE [h EXCEPT !.pc = "loop",
                   !.log = Append(@, Call("mkdir", [path |-> servicePath(h.language)]))]

\* what the catch block of the handler leaves
createError(h) == [h EXCEPT !.pc = "done", !.outcome = "Error creating service"]

\* the head of `for (const file of code.files)` up to `await fs.mkdir(dirPath, ...)`, and
\* after the last file step 5 up to `await fs.writeFile(path.join(servicePath, 'README.md'), ...)`.
\* A code.files that is not iterable, a filename that is not a string and
\* a code.dependencies without join throw a TypeError.
createLoop(h, code) ==
    IF "array" \notin DOMAIN code.files THEN createError(h)
    ELSE IF h.fileIndex < Len(code.files.array)
    THEN LET file == code.files.array[h.fileIndex + 1]
         IN  IF "filename" \notin DOMAIN file THEN createError(h)
             ELSE [h EXCEPT !.pc = "fileDir",
                            !.log = Append(@, Call("mkdir",
                                [path |-> dirname(pathJoin(servicePath(h.language),
                                                           file.filename))]))]
    ELSE IF "dependencies" \notin DOMAIN code \/ "array" \notin DOMAIN code.dependencies
         THEN createError(h)
         ELSE [h EXCEPT !.pc = "readme",
                        !.log = Append(@, Call("writeFile",
                            [path |-> pathJoin(servicePath(h.language), <<"README.md">>)]))]

\* `await fs.writeFile(filePath, file.content, 'utf8')` of the loop
createFileDirMade(h, code) ==
    LET file == code.files.array[h.fileIndex + 1]
    IN  [h EXCEPT !.pc = "loop", !.fileIndex = @ + 1,
                  !.log = Append(@, Call("writeFile",
                      [path |-> pathJoin(servicePath(h.language), file.filename)]))]

\* after the README is written: 'Service created successfully'
createReadmeWritten(h) == [h EXCEPT !.pc = "done", !.outcome = "Service created successfully"]

----------------------------------------------------------------------------
(* Inputs *)

plainProfile == LanguageProfile("plain", <<>>)

dupProfile ==
    addUseCase(addUseCase(LanguageProfile("dup", [performance |-> 8]), "web", 3), "web", 8)

ProfilePool == {goProfile, plainProfile, dupProfile}

UseCaseNames == {"system", "web"}

Weights == 0..MaxWeight

\* a characteristic entry: {weight: w}, or an entry that has no weight
Entries == {[weight |-> w] : w \in Weights} \cup {[importance |-> 8]}

KeySets == {K \in SUBSET DimSet : Cardinality(K) <= MaxQueryKeys}

DimQueries == UNION {[K -> Entries] : K \in KeySets}

UseCaseParts ==
    {<<>>}
    \cup {[useCase |-> u] : u \in UseCaseNames}
    \cup {[useCaseWeight |-> w] : w \in Weights}
    \cup {[useCase |-> u, useCaseWeight |-> w] : u \in UseCaseNames, w \in Weights}

\* the query of the spec's builtin example
SystemQuery ==
    [performance |-> [weight |-> 1], concurrency |-> [weight |-> 1], useCase |-> "system"]

\* queries that weigh all five characteristics
FullQuery ==
    [performance |-> [weight |-> 1], memory |-> [weight |-> 2], startupTime |-> [weight |-> 1],
     ecosystem |-> [weight |-> 2], concurrency |-> [weight |-> 1]]

NamedQueries ==
    {SystemQuery,
     FullQuery,
     FullQuery @@ [useCase |-> "web", useCaseWeight |-> 2],
     [memory |-> [importance |-> 8]] @@ FullQuery}

Queries == {d @@ u : d \in DimQueries, u \in UseCaseParts} \cup NamedQueries

OracleReplies ==
    {Null} \cup
    {OracleObject(u, w, 8, uw) :
        u \in UseCaseNames, w \in UNION {[K -> Weights] : K \in KeySets}, uw \in Weights}

Names(reg) == {reg[i].name : i \in 1..Len(reg)}

----------------------------------------------------------------------------
(* The LLM client object of the state *)

\* the values of llm.provider and llm.apiKey when the client module is loaded
Providers == {Str("openai"), Str("anthropic")}
ApiKeys == {Undefined, Str(""), Str("test-key")}

\* the store with these two values set
StoreWith(provider, apiKey) ==
    set(set(DefaultConfig, <<"llm", ".", "provider">>, provider).obj,
        <<"llm", ".", "apiKey">>, apiKey).obj

\* the client object of the state
This ==
    [provider |-> clientProvider, model |-> clientModel, apiKey |-> clientApiKey,
     client |-> client, constructions |-> constructions, requests |-> requests]

\* the client object of the state is the newly constructed this
ClientIs(this) ==
    /\ clientProvider = this.provider
    /\ clientModel = this.model
    /\ clientApiKey = this.apiKey
    /\ client = this.client
    /\ constructions = this.constructions
    /\ requests = this.requests

\* the values of llm.apiKey in a process that runs the CLI commands
CliKeys == {Undefined, Str("test-key")}

\* the client after a call of op that left the client object as done.this
\* with the outcome done.outcome, flight being the requests then awaiting a reply
ClientStepped(op, done, flight) ==
    /\ client' = done.this.client
    /\ constructions' = done.this.constructions
    /\ requests' = done.this.requests
    /\ clientOutcome' = done.outcome
    /\ clientOp' = op
    /\ clientBefore' = client
    /\ clientCalls' = clientCalls + 1
    /\ clientHistory' = Append(clientHistory, op)
    /\ inFlight' = IF done.outcome = Pending THEN Append(flight, op) ELSE flight
    /\ UNCHANGED <<clientProvider, clientModel, clientApiKey, completion>>

\* a step of a handler that does not call the client
NoClientCall == UNCHANGED <<clientVars, inFlight, clientHistory>>

\* the method op a handler awaits resumes from its own await and settles to result
ReplyArrived(op, result) ==
    /\ clientOutcome' = Resolved(result)
    /\ clientOp' = op
    /\ clientBefore' = client
    /\ inFlight' = <<>>
    /\ UNCHANGED <<clientProvider, clientModel, clientApiKey, client, constructions,
                   completion, requests, clientCalls, clientHistory>>

----------------------------------------------------------------------------
(* The scorer and the analyze command as a state machine.  The argument    *)
(* of the calls is drawn once, in Init; the registry is built by actions.  *)
(* The API key is read by the analyze command only, so it is drawn where   *)
(* the argument is a reply of the oracle.                                  *)

Init ==
    /\ registry = <<>>
    /\ requirements \in Queries \cup OracleReplies
    /\ matchProfile = NoValue
    /\ matchResult = NoValue
    /\ best = NoValue
    /\ lastOp = "init"
    /\ target = NoValue
    /\ source = NoValue
    /\ output = NoValue
    /\ mergeOp = "init"
    /\ config = DefaultConfig
    /\ files = [p \in Paths |-> NoFile]
    /\ argKey = <<>>
    /\ argValue = NoValue
    /\ configOp = "init"
    /\ calledPath = ""
    /\ outcome = NoValue
    /\ configBefore = NoValue
    /\ filesBefore = NoValue
    /\ calls = 0
    /\ heap = <<>>
    /\ heapBefore = <<>>
    /\ ctorArg = NoValue
    /\ constructed = NoValue
    /\ profileOp = "init"
    /\ builderCalls = 0
    /\ \E apiKey \in (IF requirements \in OracleReplies THEN CliKeys ELSE {Str("test-key")}) :
          ClientIs(LLMClient(StoreWith(Str("openai"), apiKey)))
    /\ completion = NoValue
    /\ clientOp = "init"
    /\ clientOutcome = NoValue
    /\ clientBefore = Null
    /\ clientCalls = 0
    /\ optionLanguage = Undefined
    /\ analysisReply = NoValue
    /\ codeReply = NoValue
    /\ createPc = "idle"
    /\ createLanguage = Undefined
    /\ fileIndex = 0
    /\ callLog = <<>>
    /\ createOutcome = "none"
    /\ inFlight = <<>>
    /\ clientHistory = <<>>
    /\ analyzePc = "idle"

\* module load: the four builtin profiles are built and exported
LoadCatalog ==
    /\ registry = <<>>
    /\ registry' = profiles
    /\ matchProfile' = NoValue
    /\ matchResult' = NoValue
    /\ best' = NoValue
    /\ lastOp' = "load"
    /\ UNCHANGED <<requirements, target, source, output, mergeOp>>
    /\ UNCHANGED <<configVars, heapVars>>
    /\ UNCHANGED profileVars
    /\ UNCHANGED clientVars
    /\ UNCHANGED createVars
    /\ UNCHANGED awaitVars

\* a caller registers a further profile built with the same builder
Register(p) ==
    /\ Len(registry) < MaxProfiles
    /\ p.name \notin Names(registry)
    /\ registry' = Append(registry, p)
    /\ matchProfile' = NoValue
    /\ matchResult' = NoValue
    /\ best' = NoValue
    /\ lastOp' = "register"
    /\ UNCHANGED <<requirements, target, source, output, mergeOp>>
    /\ UNCHANGED <<configVars, heapVars>>
    /\ UNCHANGED profileVars
    /\ UNCHANGED clientVars
    /\ UNCHANGED createVars
    /\ UNCHANGED awaitVars

\* registry[i].matches(requirements)
Matches(i) ==
    /\ requirements \in Queries
    /\ matchProfile' = registry[i]
    /\ matchResult' = matches(registry[i], requirements)
    /\ best' = NoValue
    /\ lastOp' = "matches"
    /\ UNCHANGED <<registry, requirements, target, source, output, mergeOp>>
    /\ UNCHANGED <<configVars, heapVars>>
    /\ UNCHANGED profileVars
    /\ UNCHANGED clientVars
    /\ UNCHANGED createVars
    /\ UNCHANGED awaitVars

\* findBestLanguageForRequirements(requirements)
FindBest ==
    /\ requirements \in Queries
    /\ best' = findBestLanguageForRequirements(registry, requirements)
    /\ matchProfile' = NoValue
    /\ matchResult' = NoValue
    /\ lastOp' = "findBest"
    /\ UNCHANGED <<registry, requirements, target, source, output, mergeOp>>
    /\ UNCHANGED <<configVars, heapVars>>
    /\ UNCHANGED profileVars
    /\ UNCHANGED clientVars
    /\ UNCHANGED createVars
    /\ UNCHANGED awaitVars

\* the analyze command up to `await llm.analyzeRequirements(description)`:
\* the client is obtained and the request sent, or the method returns null
AnalyzeStart ==
    /\ analyzePc = "idle"
    /\ requirements \in OracleReplies
    /\ \E done \in {analyzeRequirements(This)} :
          ClientStepped("analyzeRequirements", done, inFlight)
    /\ analyzePc' = "await"
    /\ UNCHANGED scorerVars
    /\ UNCHANGED <<configVars, heapVars>>
    /\ UNCHANGED profileVars
    /\ UNCHANGED createVars

\* llm.analyzeRequirements resumes from its await and settles, `requirements`
\* being what the reply to the request parses to; the handler stays suspended
AnalyzeSettled ==
    /\ analyzePc = "await"
    /\ inFlight # <<>>
    /\ ReplyArrived("analyzeRequirements", requirements)
    /\ UNCHANGED scorerVars
    /\ UNCHANGED <<configVars, heapVars>>
    /\ UNCHANGED profileVars
    /\ UNCHANGED createVars
    /\ UNCHANGED analyzePc

\* the analyze command from the await on, once the method has settled
AnalyzeResolved ==
    /\ analyzePc = "await"
    /\ inFlight = <<>>
    /\ best' = analyzeResult(registry, clientOutcome.resolved)
    /\ matchProfile' = NoValue
    /\ matchResult' = NoValue
    /\ lastOp' = "analyze"
    /\ analyzePc' = "done"
    /\ NoClientCall
    /\ UNCHANGED <<registry, requirements, target, source, output, mergeOp>>
    /\ UNCHANGED <<configVars, heapVars>>
    /\ UNCHANGED profileVars
    /\ UNCHANGED createVars

\* the languages command
LanguagesCommand ==
    /\ registry' = languagesCommand(registry)
    /\ matchProfile' = NoValue
    /\ matchResult' = NoValue
    /\ best' = NoValue
    /\ lastOp' = "languages"
    /\ UNCHANGED <<requirements, target, source, output, mergeOp>>
    /\ UNCHANGED <<configVars, heapVars>>
    /\ UNCHANGED profileVars
    /\ UNCHANGED clientVars
    /\ UNCHANGED createVars
    /\ UNCHANGED awaitVars

Next ==
    \/ LoadCatalog
    \/ \E p \in ProfilePool : Register(p)
    \/ \E i \in 1..Len(registry) : Matches(i)
    \/ FindBest
    \/ AnalyzeStart
    \/ AnalyzeSettled
    \/ AnalyzeResolved

Spec == Init /\ [][Next]_vars

\* the arguments of the calls in a process that also runs the CLI commands
CliInputs ==
    NamedQueries \cup {Null, OracleObject("web", [performance |-> 1], 8, 1)}

InitCli ==
    /\ registry = <<>>
    /\ requirements \in CliInputs
    /\ matchProfile = NoValue
    /\ matchResult = NoValue
    /\ best = NoValue
    /\ lastOp = "init"
    /\ target = NoValue
    /\ source = NoValue
    /\ output = NoValue
    /\ mergeOp = "init"
    /\ config = DefaultConfig
    /\ files = [p \in Paths |-> NoFile]
    /\ argKey = <<>>
    /\ argValue = NoValue
    /\ configOp = "init"
    /\ calledPath = ""
    /\ outcome = NoValue
    /\ configBefore = NoValue
    /\ filesBefore = NoValue
    /\ calls = 0
    /\ heap = <<>>
    /\ heapBefore = <<>>
    /\ ctorArg = NoValue
    /\ constructed = NoValue
    /\ profileOp = "init"
    /\ builderCalls = 0
    /\ \E apiKey \in CliKeys : ClientIs(LLMClient(StoreWith(Str("openai"), apiKey)))
    /\ completion = NoValue
    /\ clientOp = "init"
    /\ clientOutcome = NoValue
    /\ clientBefore = Null
    /\ clientCalls = 0
    /\ optionLanguage = Undefined
    /\ analysisReply = NoValue
    /\ codeReply = NoValue
    /\ createPc = "idle"
    /\ createLanguage = Undefined
    /\ fileIndex = 0
    /\ callLog = <<>>
    /\ createOutcome = "none"
    /\ inFlight = <<>>
    /\ clientHistory = <<>>
    /\ analyzePc = "idle"

\* the calls on the registry and the commands of the CLI
NextCli ==
    \/ LoadCatalog
    \/ \E p \in ProfilePool : Register(p)
    \/ \E i \in 1..Len(registry) : Matches(i)
    \/ FindBest
    \/ AnalyzeStart
    \/ AnalyzeSettled
    \/ AnalyzeResolved
    \/ LanguagesCommand

SpecCli == InitCli /\ [][NextCli]_vars

TypeOK ==
    /\ Len(registry) <= 4
    /\ lastOp \in {"init", "load", "register", "matches", "findBest", "analyze", "languages"}

----------------------------------------------------------------------------
(* A profile built by a caller: the constructor, then the builder calls.   *)
(* The argument of the constructor is drawn once, in Init.                 *)

\* the values a caller supplies for a characteristic
SuppliedValues == {1, 10}

\* the characteristics arguments: any part of the five dimensions, or a key
\* that is no dimension
Overrides ==
    UNION {[K -> SuppliedValues] : K \in SUBSET DimSet}
    \cup {[performance |-> 10, throughput |-> 1]}

InitProfile ==
    /\ registry = <<>>
    /\ requirements = NoValue
    /\ matchProfile = NoValue
    /\ matchResult = NoValue
    /\ best = NoValue
    /\ lastOp = "init"
    /\ target = NoValue
    /\ source = NoValue
    /\ output = NoValue
    /\ mergeOp = "init"
    /\ config = DefaultConfig
    /\ files = [p \in Paths |-> NoFile]
    /\ argKey = <<>>
    /\ argValue = NoValue
    /\ configOp = "init"
    /\ calledPath = ""
    /\ outcome = NoValue
    /\ configBefore = NoValue
    /\ filesBefore = NoValue
    /\ calls = 0
    /\ heap = <<>>
    /\ heapBefore = <<>>
    /\ ctorArg \in Overrides \cup {NoValue}
    /\ constructed = NoValue
    /\ profileOp = "init"
    /\ builderCalls = 0
    /\ clientProvider = Undefined
    /\ clientModel = Undefined
    /\ clientApiKey = Undefined
    /\ client = Null
    /\ constructions = <<>>
    /\ completion = NoValue
    /\ requests = <<>>
    /\ clientOp = "init"
    /\ clientOutcome = NoValue
    /\ clientBefore = Null
    /\ clientCalls = 0
    /\ optionLanguage = Undefined
    /\ analysisReply = NoValue
    /\ codeReply = NoValue
    /\ createPc = "idle"
    /\ createLanguage = Undefined
    /\ fileIndex = 0
    /\ callLog = <<>>
    /\ createOutcome = "none"
    /\ inFlight = <<>>
    /\ clientHistory = <<>>
    /\ analyzePc = "idle"

\* constructed = new LanguageProfile('custom', ctorArg)
Construct ==
    /\ profileOp = "init"
    /\ constructed' = newLanguageProfile("custom", ctorArg)
    /\ profileOp' = "constructor"
    /\ UNCHANGED <<ctorArg, builderCalls>>
    /\ UNCHANGED <<scorerVars, configVars, heapVars>>
    /\ UNCHANGED clientVars
    /\ UNCHANGED createVars
    /\ UNCHANGED awaitVars

\* constructed.addUseCase(useCase, 7)
AddUseCase(useCase) ==
    /\ profileOp # "init"
    /\ builderCalls < MaxBuilderCalls
    /\ constructed' = addUseCase(constructed, useCase, 7)
    /\ profileOp' = "addUseCase"
    /\ builderCalls' = builderCalls + 1
    /\ UNCHANGED ctorArg
    /\ UNCHANGED <<scorerVars, configVars, heapVars>>
    /\ UNCHANGED clientVars
    /\ UNCHANGED createVars
    /\ UNCHANGED awaitVars

\* constructed.addLibrary('express', 'web server', 9)
AddLibrary ==
    /\ profileOp # "init"
    /\ builderCalls < MaxBuilderCalls
    /\ constructed' = addLibrary(constructed, "express", "web server", 9)
    /\ profileOp' = "addLibrary"
    /\ builderCalls' = builderCalls + 1
    /\ UNCHANGED ctorArg
    /\ UNCHANGED <<scorerVars, configVars, heapVars>>
    /\ UNCHANGED clientVars
    /\ UNCHANGED createVars
    /\ UNCHANGED awaitVars

NextProfile ==
    \/ Construct
    \/ \E useCase \in UseCaseNames : AddUseCase(useCase)
    \/ AddLibrary

SpecProfile == InitProfile /\ [][NextProfile]_vars

----------------------------------------------------------------------------
(* The LLM client as a state machine.  The store the constructor reads     *)
(* and the behaviour of the API are drawn once, in Init.                   *)

\* the texts of a reply
ReplyTexts ==
    {JSONstringify(Obj([useCase |-> Str("api"), useCaseWeight |-> Number(1)])),
     JSONstringify(Arr(<<Obj([name |-> Str("auth-service")])>>)),
     JSONstringify(Null),
     Garbage}

Completions ==
    {ApiRejects, ApiResponse(<<>>)} \cup {ApiResponse(<<text>>) : text \in ReplyTexts}

InitClient ==
    /\ registry = <<>>
    /\ requirements = NoValue
    /\ matchProfile = NoValue
    /\ matchResult = NoValue
    /\ best = NoValue
    /\ lastOp = "init"
    /\ target = NoValue
    /\ source = NoValue
    /\ output = NoValue
    /\ mergeOp = "init"
    /\ config = DefaultConfig
    /\ files = [p \in Paths |-> NoFile]
    /\ argKey = <<>>
    /\ argValue = NoValue
    /\ configOp = "init"
    /\ calledPath = ""
    /\ outcome = NoValue
    /\ configBefore = NoValue
    /\ filesBefore = NoValue
    /\ calls = 0
    /\ heap = <<>>
    /\ heapBefore = <<>>
    /\ ctorArg = NoValue
    /\ constructed = NoValue
    /\ profileOp = "init"
    /\ builderCalls = 0
    /\ \E provider \in Providers, apiKey \in ApiKeys :
          ClientIs(LLMClient(StoreWith(provider, apiKey)))
    /\ completion \in Completions
    /\ clientOp = "init"
    /\ clientOutcome = NoValue
    /\ clientBefore = Null
    /\ clientCalls = 0
    /\ optionLanguage = Undefined
    /\ analysisReply = NoValue
    /\ codeReply = NoValue
    /\ createPc = "idle"
    /\ createLanguage = Undefined
    /\ fileIndex = 0
    /\ callLog = <<>>
    /\ createOutcome = "none"
    /\ inFlight = <<>>
    /\ clientHistory = <<>>
    /\ analyzePc = "idle"

\* a call on the client from outside the CLI commands
ClientCalled(op, done) ==
    /\ clientCalls < MaxClientCalls
    /\ ClientStepped(op, done, inFlight)
    /\ UNCHANGED <<scorerVars, configVars, heapVars, profileVars>>
    /\ UNCHANGED createVars
    /\ UNCHANGED analyzePc

\* llmClient.getClient()
GetClient == \E done \in {getClient(This)} : ClientCalled("getClient", done)

\* what a direct call of initializeClient can leave.  `new OpenAI({apiKey})` is
\* code of the openai package: without a key it throws unless the package
\* finds one in its environment, so both outcomes are possible then
initializeClientOutcomes(this) ==
    {initializeClient(this)}
    \cup (IF this.provider = Str("openai") /\ Falsy(this.apiKey)
          THEN {[outcome |-> ThrowError, this |-> this]}
          ELSE {})

\* llmClient.initializeClient(), called directly
InitializeClient ==
    \E done \in initializeClientOutcomes(This) : ClientCalled("initializeClient", done)

\* llmClient.analyzeRequirements(description), up to its await
AnalyzeRequirements ==
    \E done \in {analyzeRequirements(This)} : ClientCalled("analyzeRequirements", done)

\* llmClient.decomposeService(description), up to its await
DecomposeService ==
    \E done \in {decomposeService(This)} : ClientCalled("decomposeService", done)

\* llmClient.generateCode(language, serviceName, serviceDescription), up to its await
GenerateCode ==
    \E done \in {generateCode(This)} : ClientCalled("generateCode", done)

\* the reply to the i-th request in flight arrives and its method settles
Settle(i) ==
    /\ clientOutcome' = settle(completion)
    /\ clientOp' = inFlight[i]
    /\ clientBefore' = client
    /\ inFlight' = Without(inFlight, i)
    /\ UNCHANGED <<clientProvider, clientModel, clientApiKey, client, constructions,
                   completion, requests, clientCalls, clientHistory>>
    /\ UNCHANGED <<scorerVars, configVars, heapVars, profileVars>>
    /\ UNCHANGED createVars
    /\ UNCHANGED analyzePc

NextClient ==
    \/ GetClient
    \/ InitializeClient
    \/ AnalyzeRequirements
    \/ DecomposeService
    \/ GenerateCode
    \/ \E i \in 1..Len(inFlight) : Settle(i)

SpecClient == InitClient /\ [][NextClient]_vars

----------------------------------------------------------------------------
(* deepMerge applied to drawn documents *)

Leaves ==
    {Number(n) : n \in 1..MaxNumber}
    \cup {Str("hi"), Arr(<<Number(1)>>), Arr(<<Number(2), Number(3)>>)}

ObjectsOver(K, V) == {Obj(f) : f \in UNION {[S -> V] : S \in SUBSET K}}

InnerDocs == ObjectsOver({"x", "y"}, Leaves)

MidDocs == ObjectsOver({"a"}, Leaves \cup InnerDocs)

Docs == ObjectsOver({"a"}, Leaves \cup InnerDocs \cup MidDocs)

InitMerge ==
    /\ registry = <<>>
    /\ requirements = NoValue
    /\ matchProfile = NoValue
    /\ matchResult = NoValue
    /\ best = NoValue
    /\ lastOp = "init"
    /\ target \in Docs
    /\ source \in Docs
    /\ output = NoValue
    /\ mergeOp = "init"
    /\ config = DefaultConfig
    /\ files = [p \in Paths |-> NoFile]
    /\ argKey = <<>>
    /\ argValue = NoValue
    /\ configOp = "init"
    /\ calledPath = ""
    /\ outcome = NoValue
    /\ configBefore = NoValue
    /\ filesBefore = NoValue
    /\ calls = 0
    /\ heap = <<>>
    /\ heapBefore = <<>>
    /\ ctorArg = NoValue
    /\ constructed = NoValue
    /\ profileOp = "init"
    /\ builderCalls = 0
    /\ clientProvider = Undefined
    /\ clientModel = Undefined
    /\ clientApiKey = Undefined
    /\ client = Null
    /\ constructions = <<>>
    /\ completion = NoValue
    /\ requests = <<>>
    /\ clientOp = "init"
    /\ clientOutcome = NoValue
    /\ clientBefore = Null
    /\ clientCalls = 0
    /\ optionLanguage = Undefined
    /\ analysisReply = NoValue
    /\ codeReply = NoValue
    /\ createPc = "idle"
    /\ createLanguage = Undefined
    /\ fileIndex = 0
    /\ callLog = <<>>
    /\ createOutcome = "none"
    /\ inFlight = <<>>
    /\ clientHistory = <<>>
    /\ analyzePc = "idle"

\* output = this.deepMerge(target, source)
DeepMerge ==
    /\ mergeOp = "init"
    /\ output' = deepMerge(target, source)
    /\ mergeOp' = "deepMerge"
    /\ UNCHANGED <<registry, requirements, matchProfile, matchResult, best, lastOp,
                   target, source>>
    /\ UNCHANGED <<configVars, heapVars>>
    /\ UNCHANGED profileVars
    /\ UNCHANGED clientVars
    /\ UNCHANGED createVars
    /\ UNCHANGED awaitVars

NextMerge == DeepMerge

SpecMerge == InitMerge /\ [][NextMerge]_vars

----------------------------------------------------------------------------
(* deepMerge applied to references of drawn documents *)

InitHeap ==
    /\ registry = <<>>
    /\ requirements = NoValue
    /\ matchProfile = NoValue
    /\ matchResult = NoValue
    /\ best = NoValue
    /\ lastOp = "init"
    /\ \E base \in Docs, override \in Docs :
          LET first == Alloc(<<>>, base)
              second == Alloc(first.heap, override)
          IN  /\ heap = second.heap
              /\ target = first.val
              /\ source = second.val
    /\ output = NoValue
    /\ mergeOp = "init"
    /\ config = DefaultConfig
    /\ files = [p \in Paths |-> NoFile]
    /\ argKey = <<>>
    /\ argValue = NoValue
    /\ configOp = "init"
    /\ calledPath = ""
    /\ outcome = NoValue
    /\ configBefore = NoValue
    /\ filesBefore = NoValue
    /\ calls = 0
    /\ heapBefore = <<>>
    /\ ctorArg = NoValue
    /\ constructed = NoValue
    /\ profileOp = "init"
    /\ builderCalls = 0
    /\ clientProvider = Undefined
    /\ clientModel = Undefined
    /\ clientApiKey = Undefined
    /\ client = Null
    /\ constructions = <<>>
    /\ completion = NoValue
    /\ requests = <<>>
    /\ clientOp = "init"
    /\ clientOutcome = NoValue
    /\ clientBefore = Null
    /\ clientCalls = 0
    /\ optionLanguage = Undefined
    /\ analysisReply = NoValue
    /\ codeReply = NoValue
    /\ createPc = "idle"
    /\ createLanguage = Undefined
    /\ fileIndex = 0
    /\ callLog = <<>>
    /\ createOutcome = "none"
    /\ inFlight = <<>>
    /\ clientHistory = <<>>
    /\ analyzePc = "idle"

\* output = this.deepMerge(target, source), the arguments being references
DeepMergeAt ==
    /\ mergeOp = "init"
    /\ LET done == deepMergeAt(heap, target, source)
       IN  /\ heap' = done.heap
           /\ output' = done.val
    /\ heapBefore' = heap
    /\ mergeOp' = "deepMergeAt"
    /\ UNCHANGED <<registry, requirements, matchProfile, matchResult, best, lastOp,
                   target, source, configVars>>
    /\ UNCHANGED profileVars
    /\ UNCHANGED clientVars
    /\ UNCHANGED createVars
    /\ UNCHANGED awaitVars

NextHeap == DeepMergeAt

SpecHeap == InitHeap /\ [][NextHeap]_vars

----------------------------------------------------------------------------
(* The store as a state machine.  The key and the value of the get and     *)
(* set calls and the override document on disk are drawn once, in Init.    *)

\* the dotted paths get and set are called with
Keys ==
    {<<"paths">>,
     <<"llm", ".", "model">>,
     <<"llm", ".", "provider", ".", "x">>,
     <<"llm", ".", "provider", ".", "x", ".", "y">>,
     <<"llm", ".", "apiKey", ".", "x">>,
     <<"newSetting", ".", "x">>,
     <<"newProperty", ".", "nested", ".", "value">>,
     <<"languages", ".", "javascript", ".", "priority", ".", "x">>,
     <<"languages", ".", "javascript", ".", "useCase", ".", "x">>,
     <<"languages", ".", "javascript", ".", "useCase", ".", "3">>}

\* the values set is called with
Values == {Str("test"), Null}

\* the override documents an operator supplies
OverrideDocs ==
    {Obj([llm |-> Obj([model |-> Str("custom-model")]), newSetting |-> Bool(TRUE)]),
     Obj([llm |-> Null]),
     Obj([llm |-> Obj([provider |-> Obj([x |-> Number(1)])])]),
     Obj([languages |-> Obj([javascript |-> Obj([useCase |-> Arr(<<Str("cli")>>)])])])}

\* the files before the first call: the override document under each suffix,
\* or a text that does not parse
InitialFiles(doc) ==
    [p \in Paths |->
        IF Unwritable(p) THEN NoFile
        ELSE IF doc = NoValue THEN File(Garbage)
        ELSE IF Extname(p) \in {".yml", ".yaml"} THEN File(YAMLstringify(doc))
        ELSE File(JSONstringify(doc))]

InitConfig ==
    /\ registry = <<>>
    /\ requirements = NoValue
    /\ matchProfile = NoValue
    /\ matchResult = NoValue
    /\ best = NoValue
    /\ lastOp = "init"
    /\ target = NoValue
    /\ source = NoValue
    /\ output = NoValue
    /\ mergeOp = "init"
    /\ config = DefaultConfig
    /\ \E doc \in OverrideDocs \cup {NoValue} : files = InitialFiles(doc)
    /\ argKey \in Keys
    /\ argValue \in Values
    /\ configOp = "init"
    /\ calledPath = ""
    /\ outcome = NoValue
    /\ configBefore = NoValue
    /\ filesBefore = NoValue
    /\ calls = 0
    /\ heap = <<>>
    /\ heapBefore = <<>>
    /\ ctorArg = NoValue
    /\ constructed = NoValue
    /\ profileOp = "init"
    /\ builderCalls = 0
    /\ clientProvider = Undefined
    /\ clientModel = Undefined
    /\ clientApiKey = Undefined
    /\ client = Null
    /\ constructions = <<>>
    /\ completion = NoValue
    /\ requests = <<>>
    /\ clientOp = "init"
    /\ clientOutcome = NoValue
    /\ clientBefore = Null
    /\ clientCalls = 0
    /\ optionLanguage = Undefined
    /\ analysisReply = NoValue
    /\ codeReply = NoValue
    /\ createPc = "idle"
    /\ createLanguage = Undefined
    /\ fileIndex = 0
    /\ callLog = <<>>
    /\ createOutcome = "none"
    /\ inFlight = <<>>
    /\ clientHistory = <<>>
    /\ analyzePc = "idle"

\* config.get(key)
Get ==
    /\ outcome' = get(config, argKey)
    /\ configOp' = "get"
    /\ calledPath' = ""
    /\ configBefore' = config
    /\ filesBefore' = files
    /\ UNCHANGED <<config, files, argKey, argValue, calls, scorerVars, heapVars>>
    /\ UNCHANGED profileVars
    /\ UNCHANGED clientVars
    /\ UNCHANGED createVars
    /\ UNCHANGED awaitVars

\* config.set(key, value)
Set ==
    /\ calls < MaxCalls
    /\ LET done == set(config, argKey, argValue)
       IN  /\ config' = done.obj
           /\ outcome' = IF done.thrown THEN Throw ELSE Return(Undefined)
    /\ configOp' = "set"
    /\ calledPath' = ""
    /\ configBefore' = config
    /\ filesBefore' = files
    /\ calls' = calls + 1
    /\ UNCHANGED <<files, argKey, argValue, scorerVars, heapVars>>
    /\ UNCHANGED profileVars
    /\ UNCHANGED clientVars
    /\ UNCHANGED createVars
    /\ UNCHANGED awaitVars

\* config.loadFromFile(p)
LoadFromFile(p) ==
    /\ calls < MaxCalls
    /\ LET done == loadFromFile(config, files, p)
       IN  /\ config' = done.config
           /\ outcome' = Return(Bool(done.ret))
    /\ configOp' = "loadFromFile"
    /\ calledPath' = p
    /\ configBefore' = config
    /\ filesBefore' = files
    /\ calls' = calls + 1
    /\ UNCHANGED <<files, argKey, argValue, scorerVars, heapVars>>
    /\ UNCHANGED profileVars
    /\ UNCHANGED clientVars
    /\ UNCHANGED createVars
    /\ UNCHANGED awaitVars

\* config.saveToFile(p)
SaveToFile(p) ==
    /\ calls < MaxCalls
    /\ LET done == saveToFile(config, files, p)
       IN  /\ files' = done.files
           /\ outcome' = Return(Bool(done.ret))
    /\ configOp' = "saveToFile"
    /\ calledPath' = p
    /\ configBefore' = config
    /\ filesBefore' = files
    /\ calls' = calls + 1
    /\ UNCHANGED <<config, argKey, argValue, scorerVars, heapVars>>
    /\ UNCHANGED profileVars
    /\ UNCHANGED clientVars
    /\ UNCHANGED createVars
    /\ UNCHANGED awaitVars

NextConfig ==
    \/ Get
    \/ Set
    \/ \E p \in Paths : LoadFromFile(p)
    \/ \E p \in Paths : SaveToFile(p)

SpecConfig == InitConfig /\ [][NextConfig]_vars

\* config.loadFromFile(p) of the copy of core/config.js that has no deepMerge
LoadFromFileSpread(p) ==
    /\ calls < MaxCalls
    /\ LET done == loadFromFileSpread(config, files, p)
       IN  /\ config' = done.config
           /\ outcome' = Return(Bool(done.ret))
    /\ configOp' = "loadFromFile"
    /\ calledPath' = p
    /\ configBefore' = config
    /\ filesBefore' = files
    /\ calls' = calls + 1
    /\ UNCHANGED <<files, argKey, argValue, scorerVars, heapVars>>
    /\ UNCHANGED profileVars
    /\ UNCHANGED clientVars
    /\ UNCHANGED createVars
    /\ UNCHANGED awaitVars

NextSpread ==
    \/ Get
    \/ Set
    \/ \E p \in Paths : LoadFromFileSpread(p)
    \/ \E p \in Paths : SaveToFile(p)

SpecSpread == InitConfig /\ [][NextSpread]_vars

----------------------------------------------------------------------------
(* The create command as a state machine: one run of the handler, a step  *)
(* per await.  The option, the API key and what the replies to the two    *)
(* requests parse to are drawn in Init; the registry is the builtin       *)
(* catalog the module exports.                                            *)

\* options.language: absent, or the argument of --language
OptionLanguages == {Undefined, Str(""), Str("go"), Str("cobol")}

AnalysisReplies == {Null, SystemQuery, OracleObject("web", [performance |-> 1], 8, 1)}

\* entries of code.files: a filename (its segments) and a content, or no filename
FilePool ==
    {[filename |-> <<"index.js">>, content |-> "a"],
     [filename |-> <<"src", "app.js">>, content |-> "b"],
     [filename |-> <<"..", "..", "x.js">>, content |-> "c"],
     [content |-> "d"]}

FileLists == UNION {[1..n -> FilePool] : n \in 0..MaxFiles}

CodeReplies ==
    {Null,
     [instructions |-> Str("run")],
     [files |-> Null, instructions |-> Str("run"), dependencies |-> Arr(<<"express">>)],
     [files |-> Obj(<<>>), instructions |-> Str("run"), dependencies |-> Arr(<<"express">>)]}
    \cup {[files |-> Arr(fl), instructions |-> Str("run"), dependencies |-> Arr(<<"express">>)] :
            fl \in FileLists}
    \cup {[files |-> Arr(fl), instructions |-> Str("run")] : fl \in FileLists}

InitCreate ==
    /\ registry = profiles
    /\ requirements = NoValue
    /\ matchProfile = NoValue
    /\ matchResult = NoValue
    /\ best = NoValue
    /\ lastOp = "init"
    /\ target = NoValue
    /\ source = NoValue
    /\ output = NoValue
    /\ mergeOp = "init"
    /\ config = DefaultConfig
    /\ files = [p \in Paths |-> NoFile]
    /\ argKey = <<>>
    /\ argValue = NoValue
    /\ configOp = "init"
    /\ calledPath = ""
    /\ outcome = NoValue
    /\ configBefore = NoValue
    /\ filesBefore = NoValue
    /\ calls = 0
    /\ heap = <<>>
    /\ heapBefore = <<>>
    /\ ctorArg = NoValue
    /\ constructed = NoValue
    /\ profileOp = "init"
    /\ builderCalls = 0
    /\ \E apiKey \in CliKeys : ClientIs(LLMClient(StoreWith(Str("openai"), apiKey)))
    /\ completion = NoValue
    /\ clientOp = "init"
    /\ clientOutcome = NoValue
    /\ clientBefore = Null
    /\ clientCalls = 0
    /\ optionLanguage \in OptionLanguages
    /\ analysisReply \in AnalysisReplies
    /\ codeReply \in CodeReplies
    /\ createPc = "idle"
    /\ createLanguage = Undefined
    /\ fileIndex = 0
    /\ callLog = <<>>
    /\ createOutcome = "none"
    /\ inFlight = <<>>
    /\ clientHistory = <<>>
    /\ analyzePc = "idle"

\* the handler, as the variables hold it
Handler ==
    [pc |-> createPc, language |-> createLanguage, fileIndex |-> fileIndex,
     log |-> callLog, outcome |-> createOutcome]

\* the state after a step that left the handler as h
CreateStepped(h) ==
    /\ createPc' = h.pc
    /\ createLanguage' = h.language
    /\ fileIndex' = h.fileIndex
    /\ callLog' = h.log
    /\ createOutcome' = h.outcome
    /\ UNCHANGED <<optionLanguage, analysisReply, codeReply>>
    /\ UNCHANGED <<scorerVars, configVars, heapVars, profileVars>>
    /\ UNCHANGED analyzePc

\* `create <description>` is invoked: the request of analyzeRequirements is
\* sent, or the method returns null
CreateStart ==
    /\ createPc = "idle"
    /\ \E h \in {createStart(Description)} : CreateStepped(h)
    /\ \E done \in {analyzeRequirements(This)} :
          ClientStepped("analyzeRequirements", done, inFlight)

\* a method resumes from its await and settles; the handler stays suspended
HandlerSuspended ==
    /\ UNCHANGED createVars
    /\ UNCHANGED <<scorerVars, configVars, heapVars, profileVars>>
    /\ UNCHANGED analyzePc

\* llm.analyzeRequirements resumes from its await and settles
CreateAnalysisSettled ==
    /\ createPc = "analyze"
    /\ inFlight # <<>>
    /\ ReplyArrived("analyzeRequirements", analysisReply)
    /\ HandlerSuspended

\* the handler resumes after llm.analyzeRequirements has settled; when it
\* goes on, the request of generateCode is sent
CreateAnalyzed ==
    /\ createPc = "analyze"
    /\ inFlight = <<>>
    /\ \E h \in {createAnalyzed(Handler, registry, optionLanguage,
                                    clientOutcome.resolved, Description)} :
          /\ CreateStepped(h)
          /\ IF h.pc = "generate"
             THEN \E done \in {generateCode(This)} :
                     ClientStepped("generateCode", done, inFlight)
             ELSE NoClientCall

\* llm.generateCode resumes from its await and settles
CreateCodeSettled ==
    /\ createPc = "generate"
    /\ inFlight # <<>>
    /\ ReplyArrived("generateCode", codeReply)
    /\ HandlerSuspended

\* the handler resumes after llm.generateCode has settled
CreateGenerated ==
    /\ createPc = "generate"
    /\ inFlight = <<>>
    /\ \E h \in {createGenerated(Handler, clientOutcome.resolved)} : CreateStepped(h)
    /\ NoClientCall

\* fs.mkdir(servicePath) or the writeFile of the loop has resolved
CreateLoop ==
    /\ createPc = "loop"
    /\ \E h \in {createLoop(Handler, codeReply)} : CreateStepped(h)
    /\ NoClientCall

\* fs.mkdir(dirPath) has resolved
CreateFileDirMade ==
    /\ createPc = "fileDir"
    /\ \E h \in {createFileDirMade(Handler, codeReply)} : CreateStepped(h)
    /\ NoClientCall

\* the writeFile of README.md has resolved
CreateReadmeWritten ==
    /\ createPc = "readme"
    /\ \E h \in {createReadmeWritten(Handler)} : CreateStepped(h)
    /\ NoClientCall

NextCreate ==
    \/ CreateStart
    \/ CreateAnalysisSettled
    \/ CreateAnalyzed
    \/ CreateCodeSettled
    \/ CreateGenerated
    \/ CreateLoop
    \/ CreateFileDirMade
    \/ CreateReadmeWritten

SpecCreate == InitCreate /\ [][NextCreate]_vars

----------------------------------------------------------------------------
(* Vocabulary of the claims about the scorer *)

DropKeys(q, K) == [k \in DOMAIN q \ K |-> q[k]]

\* characteristic keys of q whose entry has no weight
KeysWithoutWeight(q) == {d \in DOMAIN q \cap DimSet : "weight" \notin DOMAIN q[d]}

WellFormed(q) == KeysWithoutWeight(q) = {}

RECURSIVE SumOver(_, _, _)
SumOver(D, f(_), acc) ==
    IF D = {} THEN acc
    ELSE LET d == CHOOSE x \in D : TRUE
         IN  SumOver(D \ {d}, f, acc + f(d))

\* the weight the contract gives a matched use case: the supplied one, 1 only when omitted
ContractUseCaseWeight(q) == IF "useCaseWeight" \in DOMAIN q THEN q.useCaseWeight ELSE 1

UseCaseMatched(profile, q) ==
    "useCase" \in DOMAIN q /\ FindUseCase(profile.useCases, q.useCase, 1) # 0

\* S/W of the contract, for a well-formed query
ContractScore(profile, q) ==
    LET D == DOMAIN q \cap DimSet
        value(d) == profile.characteristics[d] * q[d].weight
        weight(d) == q[d].weight
        w == ContractUseCaseWeight(q)
        i == FindUseCase(profile.useCases, q.useCase, 1)
        S == SumOver(D, value, 0)
                + (IF UseCaseMatched(profile, q) THEN profile.useCases[i].score * w ELSE 0)
        W == SumOver(D, weight, 0) + (IF UseCaseMatched(profile, q) THEN w ELSE 0)
    IN  IF W > 0 THEN Frac(S, W) ELSE Num(0)

ScoreOf(j) == matches(registry[j], requirements)

----------------------------------------------------------------------------
(* C1: for every profile and every query whose entries carry weights,      *)
(* matches returns S/W, S and W summing characteristic*weight and weight    *)
(* over the dimensions present plus the matched use case with weight        *)
(* useCaseWeight (1 if omitted), and 0 when W is not positive.              *)
(* Stated as claimed; the code departs from it when useCaseWeight is 0.     *)
C1_ScoreIsContractAverage ==
    (lastOp = "matches" /\ WellFormed(requirements))
        => matchResult = ContractScore(matchProfile, requirements)

(* C2: on a non-empty registry findBest returns the profile of maximal     *)
(* score, the earliest registered among those that tie for the maximum,    *)
(* and the returned score is the score of the returned profile.            *)
C2_FindBestEarliestMaximum ==
    (lastOp = "findBest" /\ Len(registry) > 0)
        => \E i \in 1..Len(registry) :
              /\ best.language = registry[i].name
              /\ best.profile = registry[i]
              /\ best.score = ScoreOf(i)
              /\ \A j \in 1..Len(registry) : ~Gt(ScoreOf(j), best.score)
              /\ \A j \in 1..(i - 1) : Gt(best.score, ScoreOf(j))

\* two profiles tie for a positive maximum and the earlier one is returned
C2_Witness ==
    /\ lastOp = "findBest"
    /\ Gt(best.score, Num(0))
    /\ \E i, j \in 1..Len(registry) :
          i < j /\ best.language = registry[i].name /\ ScoreOf(j) = best.score

(* C3: over the four builtin profiles the query {performance:{weight:1},   *)
(* concurrency:{weight:1}, useCase:"system"} selects rust.                  *)
C3_BuiltinSystemQueryIsRust ==
    (lastOp = "findBest" /\ registry = profiles /\ requirements = SystemQuery)
        => best.language = "rust"

C3_Witness ==
    /\ lastOp = "findBest"
    /\ registry = profiles
    /\ requirements = SystemQuery
    /\ best.language = "rust"
    /\ best.score = Frac(29, 3)

(* C4: findBest on an empty registry returns {language: null, score: -1,   *)
(* profile: null}, and -1 is strictly below every score matches returns    *)
(* for a query with non-negative weights.                                   *)
C4_EmptyRegistrySentinel ==
    /\ (lastOp = "findBest" /\ registry = <<>>)
          => best = [language |-> NullLanguage, score |-> Num(-1), profile |-> Null]
    /\ lastOp = "matches" => Gt(matchResult, Num(-1))
    /\ (lastOp = "findBest" /\ registry # <<>>) => Gt(best.score, Num(-1))

C4_Witness ==
    /\ lastOp = "findBest"
    /\ registry = <<>>
    /\ requirements = SystemQuery
    /\ best.language = NullLanguage
    /\ best.score = Num(-1)

(* C5: a null language or null profile is returned only for the empty      *)
(* registry; on a non-empty registry findBest returns the name of a        *)
(* registered profile and that profile, whatever the query record.         *)
C5_NullOnlyWhenEmpty ==
    lastOp = "findBest"
        => /\ (best.language = NullLanguage \/ best.profile = Null) => registry = <<>>
           /\ registry # <<>>
                 => \E i \in 1..Len(registry) :
                       best.language = registry[i].name /\ best.profile = registry[i]

\* no profile gets a positive score (empty, weightless or unmatched query), yet one is returned
C5_Witness ==
    /\ lastOp = "findBest"
    /\ Len(registry) > 1
    /\ (requirements = <<>> \/ ~WellFormed(requirements))
    /\ best.score = Num(0)
    /\ best.language = registry[1].name
    /\ best.profile = registry[1]

(* C6: matches returns a number for every query record, and a term that    *)
(* is malformed (a characteristic entry without weight) contributes like a *)
(* zero-weight term: the score is the one computed with the term omitted.  *)
(* Stated as claimed; the code returns 0 as soon as one entry lacks weight. *)
C6_MalformedTermIsOmitted ==
    lastOp = "matches"
        => /\ ~matchResult.nan
           /\ matchResult =
                 matches(matchProfile, DropKeys(requirements, KeysWithoutWeight(requirements)))

(* C7: when the query names a use case the profile does not have, the      *)
(* score equals the score of the query with useCase and useCaseWeight      *)
(* removed.                                                                 *)
C7_UnmatchedUseCaseIsOmitted ==
    (lastOp = "matches" /\ "useCase" \in DOMAIN requirements
                        /\ ~UseCaseMatched(matchProfile, requirements))
        => matchResult = matches(matchProfile, DropKeys(requirements, {"useCase", "useCaseWeight"}))

C7_Witness ==
    /\ lastOp = "matches"
    /\ "useCase" \in DOMAIN requirements
    /\ ~UseCaseMatched(matchProfile, requirements)
    /\ "useCaseWeight" \in DOMAIN requirements
    /\ requirements.useCaseWeight = 2
    /\ Gt(matchResult, Num(0))

(* C8: a matched use case contributes score*w to the score sum and w to    *)
(* the weight sum, w being exactly the supplied useCaseWeight, 0 included. *)
(* Stated as claimed; the code uses 1 when the supplied weight is 0.       *)
C8_SuppliedUseCaseWeightIsUsed ==
    (lastOp = "matches" /\ WellFormed(requirements)
                        /\ UseCaseMatched(matchProfile, requirements)
                        /\ "useCaseWeight" \in DOMAIN requirements)
        => LET a == Accumulate(matchProfile, DropKeys(requirements, {"useCase", "useCaseWeight"}))
               i == FindUseCase(matchProfile.useCases, requirements.useCase, 1)
               w == Num(requirements.useCaseWeight)
               S == Add(a.score, Mul(Num(matchProfile.useCases[i].score), w))
               W == Add(a.totalWeight, w)
           IN  matchResult = IF Gt(W, Num(0)) THEN Div(S, W) ELSE Num(0)

\* the query the scorer would read if the oracle's weights sat at the top level
Flatten(reply) ==
    reply.requirements @@ [useCase |-> reply.useCase, useCaseWeight |-> reply.useCaseWeight]

(* C9: the object the analyze command hands to findBest carries the        *)
(* oracle's characteristic weights at the top level, where matches reads   *)
(* them, so every weight the oracle returned takes part in the score.      *)
(* Stated as claimed; the oracle nests them under `requirements`.          *)
C9_OracleWeightsTakePart ==
    (lastOp = "analyze" /\ requirements # Null /\ clientOutcome = Resolved(requirements))
        => best = findBestLanguageForRequirements(registry, Flatten(requirements))

----------------------------------------------------------------------------
(* Claims about deepMerge *)

ExampleBase == Obj([a |-> Obj([x |-> Number(1), y |-> Number(2)])])
ExampleOverride == Obj([a |-> Obj([y |-> Number(3)])])
ExampleMerged == Obj([a |-> Obj([x |-> Number(1), y |-> Number(3)])])

(* C10: deepMerge(base, override) holds, for every key k of override, the  *)
(* recursive merge of base[k] with override[k] when override[k] is a plain *)
(* mapping and k exists in base, and override[k] itself otherwise (arrays  *)
(* replaced wholesale); it holds base[k] unchanged for every key only in   *)
(* base; deepMerge({a:{x:1,y:2}}, {a:{y:3}}) = {a:{x:1,y:3}}.              *)
C10_DeepMergeKeyByKey ==
    mergeOp = "deepMerge"
        => /\ isObject(output)
           /\ DOMAIN output.object = DOMAIN target.object \cup DOMAIN source.object
           /\ \A k \in DOMAIN source.object :
                 output.object[k] =
                     IF isObject(source.object[k]) /\ k \in DOMAIN target.object
                     THEN deepMerge(target.object[k], source.object[k])
                     ELSE source.object[k]
           /\ \A k \in DOMAIN target.object \ DOMAIN source.object :
                 output.object[k] = target.object[k]
           /\ (target = ExampleBase /\ source = ExampleOverride) => output = ExampleMerged

C10_Witness ==
    /\ mergeOp = "deepMerge"
    /\ target = ExampleBase
    /\ source = ExampleOverride
    /\ output = ExampleMerged

----------------------------------------------------------------------------
(* Claims about the registry *)

\* every profile as it was when it was registered
RegisteredProfiles ==
    ProfilePool \cup {javascriptProfile, pythonProfile, goProfile, rustProfile}

(* C20: after any sequence of matches, findBest and toJSON calls and of    *)
(* CLI commands, every registered profile's characteristics, libraries    *)
(* and use-case sequence (order included) are what they were at            *)
(* registration.  Stated as claimed; the languages command sorts the       *)
(* use-case sequences of the registered profiles in place.                 *)
C20_ProfilesImmutable ==
    \A i \in 1..Len(registry) :
        /\ registry[i] \in RegisteredProfiles
        /\ toJSON(registry[i]) \in RegisteredProfiles

----------------------------------------------------------------------------
(* Vocabulary of the claims about the store *)

\* the key paths of a document whose value is a scalar or an array
RECURSIVE LeafPaths(_)
LeafPaths(doc) ==
    IF isObject(doc)
    THEN UNION {{<<k>> \o path : path \in LeafPaths(doc.object[k])} : k \in DOMAIN doc.object}
    ELSE {<<>>}

\* the value of a document at a key path that exists in it
RECURSIVE ValueAt(_, _)
ValueAt(doc, path) ==
    IF path = <<>> THEN doc ELSE ValueAt(doc.object[Head(path)], Tail(path))

\* the document the last loadFromFile call read
LoadedDoc == loadedConfig(filesBefore, calledPath)

LoadSucceeded == configOp = "loadFromFile" /\ outcome = Return(Bool(TRUE))

\* the keys of before that doc omits are in after with their value, at every
\* level where doc, before and after are mappings
RECURSIVE OmittedKeysKept(_, _, _)
OmittedKeysKept(before, doc, after) ==
    \A k \in DOMAIN before.object :
        IF k \notin DOMAIN doc.object
        THEN k \in DOMAIN after.object /\ after.object[k] = before.object[k]
        ELSE (isObject(doc.object[k]) /\ isObject(before.object[k]))
                => /\ k \in DOMAIN after.object
                   /\ isObject(after.object[k])
                   /\ OmittedKeysKept(before.object[k], doc.object[k], after.object[k])

\* the segments of the key of the get and set calls
Segments == Split(argKey)

\* the value conf holds at the first i segments, when reading them is possible
Reaches(conf, i) == "returned" \in DOMAIN getFrom(conf, SubSeq(Segments, 1, i))

Reached(conf, i) == getFrom(conf, SubSeq(Segments, 1, i)).returned

\* an intermediate key of the path is present in conf and holds a string, a
\* number, a boolean or an array
NonMappingIntermediate(conf) ==
    \E i \in 1..(Len(Segments) - 1) :
        /\ Reaches(conf, i)
        /\ Primitive(Reached(conf, i)) \/ "array" \in DOMAIN Reached(conf, i)

\* an intermediate key of the path is missing in conf: what the keys before it
\* lead to has no such property
MissingIntermediate(conf) ==
    \E i \in 1..(Len(Segments) - 1) :
        /\ Reaches(conf, i - 1)
        /\ Reached(conf, i - 1) \notin {Null, Undefined}
        /\ Segments[i] \notin DOMAIN Spread(Reached(conf, i - 1))

\* the path leads to a value in conf
ExistingLeaf(conf) ==
    /\ Reaches(conf, Len(Segments))
    /\ Reached(conf, Len(Segments)) # Undefined
    /\ ~MissingIntermediate(conf)

----------------------------------------------------------------------------
(* Claims about the store *)

(* C11: after a successful loadFromFile, every key path whose value in    *)
(* the loaded document is a scalar or an array resolves through get to    *)
(* that loaded value, whatever the store held before at that path or at   *)
(* a prefix of it.  Stated as claimed; where the store holds a string and *)
(* the loaded document a mapping, the mapping is lost.                    *)
C11_LoadedValuesWin ==
    LoadSucceeded
        => \A path \in LeafPaths(LoadedDoc.value) :
              getFrom(config, path) = Return(ValueAt(LoadedDoc.value, path))

(* C12: after a successful loadFromFile every key the loaded document     *)
(* omits keeps its value, at every nesting level where the loaded         *)
(* document supplies a mapping; loading {llm:{model:"custom-model"}} over *)
(* the defaults leaves llm.provider "openai" and makes llm.model          *)
(* "custom-model".  Stated as claimed, for either copy of the store.      *)
C12_MergeOnlyAddsOrOverrides ==
    (LoadSucceeded /\ isObject(LoadedDoc.value))
        => /\ OmittedKeysKept(configBefore, LoadedDoc.value, config)
           /\ (/\ configBefore = DefaultConfig
               /\ "llm" \in DOMAIN LoadedDoc.value.object
               /\ LoadedDoc.value.object["llm"] = Obj([model |-> Str("custom-model")]))
                 => /\ getFrom(config, <<"llm", "provider">>) = Return(Str("openai"))
                    /\ getFrom(config, <<"llm", "model">>) = Return(Str("custom-model"))

(* C13: when loadFromFile fails (no file can be read, the text does not   *)
(* parse, or the suffix is none of .json, .yml, .yaml) it returns false   *)
(* without throwing and the document is what it was before the call.      *)
C13_FailedLoadChangesNothing ==
    (configOp = "loadFromFile" /\ ~LoadedDoc.ok)
        => /\ outcome = Return(Bool(FALSE))
           /\ config = configBefore

C13_Witness ==
    /\ configOp = "loadFromFile"
    /\ filesBefore[calledPath] = File(Garbage)
    /\ outcome = Return(Bool(FALSE))
    /\ config = configBefore
    /\ config # DefaultConfig

(* C14: get(path) never throws: it returns the value stored at the path,  *)
(* or undefined as soon as a key along the path is missing.  Stated as    *)
(* claimed; a null on the way makes get throw.                            *)
C14_GetNeverThrows ==
    configOp = "get" => outcome # Throw

(* C15: when an intermediate key on the path of set(p, v) is present but  *)
(* holds a string, a number, a boolean or an array, set replaces it by a  *)
(* fresh mapping and assigns v at the last key without throwing, so that  *)
(* get(p) returns v afterwards.  Stated as claimed.                       *)
C15_SetReplacesNonMapping ==
    (configOp = "set" /\ NonMappingIntermediate(configBefore))
        => /\ outcome # Throw
           /\ get(config, argKey) = Return(argValue)
           /\ \A i \in 1..(Len(Segments) - 1) : isObject(Reached(config, i))

(* C16: for a path with a missing intermediate key, get returns           *)
(* undefined, set then succeeds and a following get returns the value     *)
(* set; set on an existing leaf path makes get return the new value.      *)
(* Stated as claimed.                                                     *)
C16_SetAfterMissingGet ==
    /\ (configOp = "get" /\ MissingIntermediate(config))
          => outcome = Return(Undefined)
    /\ (configOp = "set" /\ MissingIntermediate(configBefore))
          => /\ outcome # Throw
             /\ get(config, argKey) = Return(argValue)
    /\ (configOp = "set" /\ ExistingLeaf(configBefore))
          => get(config, argKey) = Return(argValue)

(* C17: saving the document to a JSON path with saveToFile and loading    *)
(* that file back with loadFromFile yields a document deep-equal to the   *)
(* one that was saved.  Stated as claimed.                                *)
C17_SaveLoadRoundTrip ==
    (/\ configOp = "loadFromFile"
     /\ Extname(calledPath) = ".json"
     /\ filesBefore[calledPath] = File(JSONstringify(configBefore)))
        => /\ outcome = Return(Bool(TRUE))
           /\ config = configBefore

(* C19: saveToFile returns true after writing the serialized document     *)
(* when the suffix is .json, .yml or .yaml; for any other suffix it       *)
(* returns false and writes nothing; when the write fails it returns      *)
(* false instead of throwing; the document is unchanged in every case.    *)
C19_SaveToFileOutcome ==
    configOp = "saveToFile"
        => /\ config = configBefore
           /\ IF Unwritable(calledPath) \/ Extname(calledPath) \notin {".json", ".yml", ".yaml"}
              THEN outcome = Return(Bool(FALSE)) /\ files = filesBefore
              ELSE /\ outcome = Return(Bool(TRUE))
                   /\ \A p \in Paths \ {calledPath} : files[p] = filesBefore[p]
                   /\ files[calledPath] # NoFile
                   /\ IF Extname(calledPath) = ".json"
                      THEN JSONparse(files[calledPath].text).ok
                           /\ files[calledPath] = File(JSONstringify(config))
                      ELSE YAMLparse(files[calledPath].text).ok
                           /\ ~JSONparse(files[calledPath].text).ok
                           /\ files[calledPath] = File(YAMLstringify(config))

C19_Witness ==
    /\ configOp = "saveToFile"
    /\ calledPath = "config.YAML"
    /\ outcome = Return(Bool(TRUE))
    /\ config # DefaultConfig
    /\ files # filesBefore
    /\ files[calledPath] = File(YAMLstringify(config))

----------------------------------------------------------------------------
(* Claims about deepMerge on references *)

(* C18: deepMerge is pure: after deepMerge(base, override) returns, base  *)
(* and override are deep-equal to what they were before the call, at      *)
(* every nesting level (no object or array that existed before the call   *)
(* has changed), and the result is the merged document.                   *)
C18_DeepMergeIsPure ==
    mergeOp = "deepMergeAt"
        => /\ Deref(heap, target) = Deref(heapBefore, target)
           /\ Deref(heap, source) = Deref(heapBefore, source)
           /\ \A a \in 1..Len(heapBefore) : heap[a] = heapBefore[a]
           /\ Deref(heap, output) =
                  deepMerge(Deref(heapBefore, target), Deref(heapBefore, source))

C18_Witness ==
    /\ mergeOp = "deepMergeAt"
    /\ Deref(heapBefore, target) = ExampleBase
    /\ Deref(heapBefore, source) = ExampleOverride
    /\ Deref(heap, output) = ExampleMerged
    /\ Deref(heap, target) = ExampleBase
    /\ Deref(heap, source) = ExampleOverride

----------------------------------------------------------------------------
(* Claims about the constructor *)

\* what the constructor call was given for dimension d, 5 when it was given none
Supplied(d) ==
    IF ctorArg # NoValue /\ d \in DOMAIN ctorArg THEN ctorArg[d] ELSE 5

(* C21: a profile constructed with no override has characteristics        *)
(* exactly {performance:5, memory:5, startupTime:5, ecosystem:5,          *)
(* concurrency:5}, no use case and no library; with a partial override    *)
(* each supplied dimension has the supplied value and every other         *)
(* dimension is 5, so that all five dimensions are always present.        *)
C21_ConstructorDefaults ==
    profileOp # "init"
        => /\ DimSet \subseteq DOMAIN constructed.characteristics
           /\ \A d \in DimSet : constructed.characteristics[d] = Supplied(d)
           /\ profileOp = "constructor"
                 => /\ constructed.useCases = <<>>
                    /\ DOMAIN constructed.libraries = {}
                    /\ ctorArg = NoValue =>
                          constructed.characteristics =
                              [performance |-> 5, memory |-> 5, startupTime |-> 5,
                               ecosystem |-> 5, concurrency |-> 5]

C21_Witness ==
    /\ profileOp = "constructor"
    /\ ctorArg = [memory |-> 1, ecosystem |-> 10]
    /\ constructed.characteristics =
           [performance |-> 5, memory |-> 1, startupTime |-> 5,
            ecosystem |-> 10, concurrency |-> 5]

----------------------------------------------------------------------------
(* Claims about the LLM client *)

\* an API key is set
KeySet == ~Falsy(clientApiKey)

\* before the last call there was no provider client and none could be made
NoClientObtainable ==
    clientBefore = Null /\ (~KeySet \/ clientProvider # Str("openai"))

AsyncOps == {"analyzeRequirements", "decomposeService", "generateCode"}

\* initializeClient has only been called by getClient so far
NoDirectInitialize ==
    \A i \in 1..Len(clientHistory) : clientHistory[i] # "initializeClient"

(* C22, as claimed: after any sequence of getClient calls with an API key *)
(* set the provider client has been constructed exactly once, with that   *)
(* key, and every call returns that same client; when the key is missing  *)
(* getClient throws and no client is constructed or cached.               *)
C22_Original ==
    /\ (clientOp = "getClient" /\ KeySet)
          => /\ NoDirectInitialize => constructions = <<[apiKey |-> clientApiKey]>>
             /\ clientOutcome = Return(client)
             /\ clientBefore # Null => client = clientBefore
    /\ (clientOp = "getClient" /\ ~KeySet)
          => /\ clientOutcome = ThrowError
             /\ client = Null
             /\ NoDirectInitialize => constructions = <<>>

(* C22, amended: the same for the provider 'openai'; with any other       *)
(* provider getClient throws on every call, key or no key, and no client  *)
(* is constructed or cached.  As long as initializeClient is reached only *)
(* through getClient, at no time has more than one provider client been   *)
(* constructed.  A direct call of initializeClient never changes the      *)
(* cached client, and with a provider other than 'openai' it throws.      *)
C22_GetClientOnce ==
    /\ NoDirectInitialize => Len(constructions) <= 1
    /\ (clientOp = "getClient" /\ KeySet /\ clientProvider = Str("openai"))
          => /\ NoDirectInitialize => constructions = <<[apiKey |-> clientApiKey]>>
             /\ clientOutcome = Return(client)
             /\ client # Null
             /\ client.apiKey = clientApiKey
             /\ clientBefore # Null => client = clientBefore
    /\ (clientOp = "getClient" /\ (~KeySet \/ clientProvider # Str("openai")))
          => /\ clientOutcome = ThrowError
             /\ client = Null
             /\ NoDirectInitialize => constructions = <<>>
    /\ clientOp = "initializeClient"
          => /\ client = clientBefore
             /\ clientProvider # Str("openai") => clientOutcome = ThrowError

C22_Witness ==
    /\ clientOp = "getClient"
    /\ clientHistory = <<"getClient", "analyzeRequirements", "getClient">>
    /\ clientApiKey = Str("test-key")
    /\ clientBefore # Null
    /\ client = clientBefore
    /\ clientOutcome = Return(client)
    /\ Len(constructions) = 1

(* C23: analyzeRequirements, decomposeService and generateCode never      *)
(* reject: each resolves to the parsed JSON content of the reply, and to  *)
(* null when the API call fails, when the reply is not valid JSON, or     *)
(* when no client can be obtained (missing key or unsupported provider).  *)
(* Until the reply has arrived the method has not settled.                *)
C23_AsyncMethodsNeverReject ==
    clientOp \in AsyncOps
        => /\ clientOutcome # Rejected
           /\ NoClientObtainable => clientOutcome = Resolved(Null)
           /\ ~NoClientObtainable
                 => clientOutcome \in
                       {Pending,
                        IF \/ completion = ApiRejects
                           \/ completion.choices = <<>>
                           \/ ~JSONparse(completion.choices[1]).ok
                        THEN Resolved(Null)
                        ELSE Resolved(JSONparse(completion.choices[1]).value)}

C23_Witness ==
    /\ clientOp = "analyzeRequirements"
    /\ requests # <<>>
    /\ clientOutcome =
           Resolved(Obj([useCase |-> Str("api"), useCaseWeight |-> Number(1)]))

(* C25, as claimed: loading is idempotent; for all nested documents b and *)
(* o, deepMerge(deepMerge(b, o), o) is deep-equal to deepMerge(b, o).     *)
(* Where b holds a scalar and o a mapping at the same key, the first      *)
(* merge keeps only the scalar's own properties and the second one then   *)
(* merges the mapping of o into that copy.                                *)
C25_LoadIdempotent ==
    mergeOp = "deepMerge" => deepMerge(output, source) = output

\* the weights of a well-formed query that meet the profile: those of the
\* characteristics it names and, for a matched use case, useCaseWeight (1 if omitted)
ContractWeight(profile, q) ==
    LET D == DOMAIN q \cap DimSet
        weight(d) == q[d].weight
    IN  SumOver(D, weight, 0)
            + (IF UseCaseMatched(profile, q) THEN ContractUseCaseWeight(q) ELSE 0)

\* the characteristic values and the use-case score that take part in a score
Participants(profile, q) ==
    {profile.characteristics[d] : d \in DOMAIN q \cap DimSet}
    \cup (IF UseCaseMatched(profile, q)
          THEN {profile.useCases[FindUseCase(profile.useCases, q.useCase, 1)].score}
          ELSE {})

Builtin == {profiles[i] : i \in 1..Len(profiles)}

(* C26: the score is a true weighted average; for every profile and every *)
(* query with non-negative weights and positive total weight the score    *)
(* lies between the smallest and the largest of the characteristic values *)
(* and use-case score that take part in it; for the builtin profiles      *)
(* every score is 0 or within [1, 10], and never the findBest sentinel -1.*)
C26_ScoreIsWeightedAverage ==
    lastOp = "matches"
        => /\ (WellFormed(requirements) /\ ContractWeight(matchProfile, requirements) > 0)
                => \E lo, hi \in Participants(matchProfile, requirements) :
                      /\ Ge(matchResult, Num(lo))
                      /\ Ge(Num(hi), matchResult)
           /\ matchProfile \in Builtin
                => /\ \/ matchResult = Num(0)
                      \/ Ge(matchResult, Num(1)) /\ Ge(Num(10), matchResult)
                   /\ matchResult # Num(-1)

\* a builtin profile scored strictly between two of its participating values
C26_Witness ==
    /\ lastOp = "matches"
    /\ matchProfile \in Builtin
    /\ WellFormed(requirements)
    /\ UseCaseMatched(matchProfile, requirements)
    /\ \E lo, hi \in Participants(matchProfile, requirements) :
          Gt(matchResult, Num(lo)) /\ Gt(Num(hi), matchResult)

----------------------------------------------------------------------------
(* Vocabulary of the claims about the create command *)

\* the positions of the calls of fn in the log
LogOf(fn) == {i \in 1..Len(callLog) : callLog[i].fn = fn}

\* a language was given with --language
LanguageSupplied == "string" \in DOMAIN optionLanguage /\ optionLanguage.string # ""

\* p lies in the directory dir
Under(dir, p) == Len(p) > Len(dir) /\ SubSeq(p, 1, Len(dir)) = dir

\* the reply carries a list of generated files
HasFileList(code) ==
    code # Null /\ "files" \in DOMAIN code /\ "array" \in DOMAIN code.files

\* the reply is null or has no files
WithoutFiles(code) == code = Null \/ "files" \notin DOMAIN code \/ code.files = Null

ReadmePath == pathJoin(servicePath(createLanguage), <<"README.md">>)

(* C24, as claimed: in the create command analyzeRequirements is called   *)
(* first, with the description; with a language option findBest is not    *)
(* consulted and generateCode is called with exactly that language,       *)
(* otherwise with the language findBest returned; the generated files are *)
(* written under services/<language>-service, one write per generated     *)
(* file plus one for README.md.  The writes depart from it: a filename    *)
(* with ".." leaves the service directory, and a reply without a          *)
(* filename or without dependencies ends the handler before the README.   *)
C24_CreateOrderAndWrites ==
    /\ callLog # <<>> => callLog[1] = Call("analyzeRequirements", Str(Description))
    /\ LanguageSupplied => LogOf("findBestLanguageForRequirements") = {}
    /\ \A i \in LogOf("generateCode") :
          IF LanguageSupplied
          THEN callLog[i].arg.language = optionLanguage
          ELSE \E j \in LogOf("findBestLanguageForRequirements") :
                  /\ j < i
                  /\ callLog[i].arg.language = callLog[j].arg.returned
                  /\ callLog[j].arg.returned =
                        Str(findBestLanguageForRequirements(profiles, analysisReply).language)
    /\ (createPc = "done" /\ LogOf("generateCode") # {} /\ HasFileList(codeReply))
          => /\ \A i \in LogOf("writeFile") :
                   Under(<<"services", ServiceName(createLanguage)>>, callLog[i].arg.path)
             /\ Cardinality(LogOf("writeFile")) = Len(codeReply.files.array) + 1

(* C27: the create command writes nothing unless both oracle calls        *)
(* succeed; if analyzeRequirements resolves to null neither findBest nor  *)
(* generateCode is called and nothing is created; if generateCode         *)
(* resolves to null or to a result without files no directory is created  *)
(* and no file is written; README.md is written only after every          *)
(* generated file has been written.                                       *)
C27_WritesNothingUnlessBothSucceed ==
    /\ (analysisReply = Null \/ ~KeySet)
          => \A i \in 1..Len(callLog) : callLog[i].fn = "analyzeRequirements"
    /\ WithoutFiles(codeReply) => LogOf("mkdir") = {} /\ LogOf("writeFile") = {}
    /\ \A i \in LogOf("writeFile") :
          callLog[i].arg.path = ReadmePath
             => \A k \in 1..Len(codeReply.files.array) :
                   \E j \in LogOf("writeFile") :
                      /\ j < i
                      /\ callLog[j].arg.path =
                            pathJoin(servicePath(createLanguage),
                                     codeReply.files.array[k].filename)

\* the handler has ended after generateCode resolved to a result without files
C27_Witness ==
    /\ createPc = "done"
    /\ LogOf("generateCode") # {}
    /\ codeReply # Null
    /\ WithoutFiles(codeReply)
    /\ createOutcome = "Failed to generate code"

====
